---------------------------- MODULE Spec2Model ----------------------------
(***************************************************************************)
(* A model of Replete's padawan transport (cmdl.js) and of the generic     *)
(* REPL's in-memory cache and version registry (repl.js).                  *)
(*                                                                         *)
(* The master is a single-threaded JavaScript program: every action below  *)
(* is one callback run to completion (an event handler, a Promise          *)
(* reaction, or a call made by the host), or one step of the environment   *)
(* (the padawan process, the filesystem).                                  *)
(***************************************************************************)
EXTENDS Integers, Sequences, FiniteSets, TLC

(***************************************************************************)
(* Bounds of the model.                                                    *)
(***************************************************************************)
MaxProcs == 3
MaxEvals == 2
MaxCreates == 1
MaxDestroys == 2

ProcIds == 1..MaxProcs
EvalIds == 1..MaxEvals

\* The scripts the host submits, and the ids the host attaches to messages.
Scripts == {"value", "throw"}
MessageIds == {"m1", "m2"}

\* The ports the system may allocate to the TCP server.
Ports == {"p1", "p2"}

Undefined == "undefined"
NoProcess == 0

\* Bounds of the REPL's cache model.
\* Writes to the files and failures of the capabilities, taken together.
MaxEvents == 2
\* Failures of the watch and locate capabilities.
MaxFaults == 1
MaxQueries == 3
MaxReads == 2
MaxJobs == 2
MaxWatchers == 2

ReadIds == 1..MaxReads
JobIds == 1..MaxJobs
NoRead == 0

VARIABLES
    \* ---- cmdl.js ----
    tcp_listening,      \* tcp_server.listening
    tcp_port,           \* tcp_server.address().port
    listen_pending,     \* tcp_server.listen() called, callback not yet run
    created,            \* the Promise returned by the first create() resolved
    procs,              \* the child processes made by spawn_padawan
    padawan_process,    \* the 'padawan_process' variable
    socket,             \* the 'socket' variable: the process it connects to
    waiters,            \* pending tcp_server.once("connection") listeners
    readers,            \* readline interfaces attached to each connection
    report_callbacks,   \* the ids in the 'report_callbacks' table
    evals,              \* each call of eval_module and its Promise
    wire_commands,      \* commands written to a connection, not yet consumed
    wire_reports,       \* reports written by a padawan, not yet relayed
    results,            \* what the host's on_result received for each message
    master,             \* "up", or "crashed" by an uncaught exception
    later_creates,      \* calls of create() after the first that resolved
    destroys,           \* calls of destroy() so far
    destroy_resolved,   \* Promises of destroy() that have resolved
    closing             \* tcp_server.close() awaits the end of connections

VARIABLES
    \* ---- repl.js ----
    disk,               \* the content of each file on disk
    edits,              \* the number of writes made to the files so far
    faults,             \* the number of failures of watch and locate so far
    queries,            \* the number of calls of versionize so far
    reads,              \* the Promises made by read(): state and content
    reading,            \* the 'reading' cache: locator -> Promise
    hashing,            \* the 'hashing' cache, by the read it derives from
    analyzing,          \* the 'analyzing' cache, by the read it derives from
    locating,           \* the 'locating' cache, by parent locator
    armed,              \* watch Promises waiting for the next change
    triggered,          \* watch Promises whose file changed, not yet run
    hashes,             \* the 'hashes' object: last known hash of each locator
    versions,           \* the 'versions' object
    jobs,               \* the versionize() calls in flight
    returned,           \* how versionize(L) last settled: the version in the
                        \* locator it returned, or Rejected
    issued,             \* every way versionize(L) has settled so far
    read_calls,         \* calls of capabilities.read since the invalidation
    errs                \* calls of capabilities.err, by the locator reported

VARIABLES
    \* ---- repl.js, send ----
    sends               \* each call of send(message, on_result) and its Promise

VARIABLES
    \* ---- node_padawan.js, deno_padawan.js ----
    pad_imports,        \* the 'imports' of each command written so far
    pad_wire,           \* the commands written to the socket, not yet read
    pad_received,       \* the commands the padawan has read, in order
    pad_loading,        \* the imports each command still waits for
    pad_evaluated       \* the commands whose script was evaluated, in order

VARIABLES
    \* ---- repl.js, replize and the script it produces ----
    scopes,             \* the padawan's $scopes object: a scope for each name
    replized,           \* what replize last returned or threw, not yet run
    evaluation,         \* how the last script evaluated
    evaluations,        \* the number of sources given to replize so far
    served              \* the module that the source server sends

VARIABLES
    \* ---- node_padawan.js: evaluate and the reports it writes ----
    commands, importing, stage, imports_bound, evaluated_with, written

padawan_vars == <<commands, importing, stage, imports_bound, evaluated_with, written>>

VARIABLES
    \* ---- make.js: safe_read, and the reads that the REPLs make through it ----
    root_locator, request, cached, opened, rejection

safe_vars == <<root_locator, request, cached, opened, rejection>>

VARIABLES
    \* ---- repl.js: versionize, and serve stripping what versionize added ----
    unguessable, versionized, asked, delivered

strip_vars == <<unguessable, versionized, asked, delivered>>

VARIABLES
    \* ---- node_resolve.js: internalize and what it makes of the exports of a manifest ----
    resolving, internal

exports_vars == <<resolving, internal>>

VARIABLES
    \* ---- node_resolve.js: find_manifest ----
    node_modules, from_url, checked, search

manifest_vars == <<node_modules, from_url, checked, search>>

VARIABLES
    \* ---- browser REPL (node_resolve.js make_browser_repl, webl.js) ----
    clients, padawans, lost, requested, eval_callbacks, on_results, connected_at

webl_vars == <<clients, padawans, lost, requested, eval_callbacks, on_results, connected_at>>

VARIABLES
    \* ---- repl.js: the specifier sites of a source, in module and in send ----
    site_source, site_module, site_command

sites_vars == <<site_source, site_module, site_command>>

VARIABLES
    \* ---- webl.js: on_message and the callbacks of the padawans ----
    secret, webl_padawans, ready_callbacks, eval_ids, eval_count, log_callbacks, invoked, received, last_message

message_vars == <<secret, webl_padawans, ready_callbacks, eval_ids, eval_count, log_callbacks, invoked, received, last_message>>

VARIABLES
    \* ---- repl.js: the calls of hash over a dependency graph ----
    importing_of, hash_root, hash_analyzing, hash_awaiting, hash_resolved, hash_versionized, hash_calls

graph_vars == <<importing_of, hash_root, hash_analyzing, hash_awaiting, hash_resolved, hash_versionized, hash_calls>>

repl_vars == <<disk, edits, faults, queries, reads, reading, hashing,
               analyzing, locating,
               armed, triggered, hashes, versions, jobs, returned, issued,
               read_calls, errs>>

life_vars == <<later_creates, destroys, destroy_resolved, closing>>

cmdl_vars == <<tcp_listening, tcp_port, listen_pending, created, procs,
               padawan_process, socket, waiters, readers, report_callbacks,
               evals, wire_commands, wire_reports, results, master,
               life_vars>>

send_vars == <<sends>>

pad_vars == <<pad_imports, pad_wire, pad_received, pad_loading,
              pad_evaluated>>

scope_vars == <<scopes, replized, evaluation, evaluations, served>>

vars == <<cmdl_vars, repl_vars, send_vars, pad_vars, scope_vars,
    padawan_vars,
    safe_vars,
    strip_vars,
    exports_vars,
    manifest_vars,
    webl_vars,
    sites_vars,
    message_vars,
    graph_vars>>

\* What the actions of each part leave alone.
outside_cmdl == <<repl_vars, send_vars, pad_vars, scope_vars,
    padawan_vars,
    safe_vars,
    strip_vars,
    exports_vars,
    manifest_vars,
    webl_vars,
    sites_vars,
    message_vars,
    graph_vars>>
outside_repl == <<cmdl_vars, send_vars, pad_vars, scope_vars,
    padawan_vars,
    safe_vars,
    strip_vars,
    exports_vars,
    manifest_vars,
    webl_vars,
    sites_vars,
    message_vars,
    graph_vars>>
outside_send == <<cmdl_vars, repl_vars, pad_vars, scope_vars,
    padawan_vars,
    safe_vars,
    strip_vars,
    exports_vars,
    manifest_vars,
    webl_vars,
    sites_vars,
    message_vars,
    graph_vars>>
outside_pad == <<cmdl_vars, repl_vars, send_vars, scope_vars,
    padawan_vars,
    safe_vars,
    strip_vars,
    exports_vars,
    manifest_vars,
    webl_vars,
    sites_vars,
    message_vars,
    graph_vars>>
outside_scope == <<cmdl_vars, repl_vars, send_vars, pad_vars,
    padawan_vars,
    safe_vars,
    strip_vars,
    exports_vars,
    manifest_vars,
    webl_vars,
    sites_vars,
    message_vars,
    graph_vars>>
outside_padawan == <<cmdl_vars,
    repl_vars,
    send_vars,
    pad_vars,
    scope_vars,
    safe_vars,
    strip_vars,
    exports_vars,
    manifest_vars,
    webl_vars,
    sites_vars,
    message_vars,
    graph_vars>>
outside_safe == <<cmdl_vars,
    repl_vars,
    send_vars,
    pad_vars,
    scope_vars,
    padawan_vars,
    strip_vars,
    exports_vars,
    manifest_vars,
    webl_vars,
    sites_vars,
    message_vars,
    graph_vars>>
outside_strip == <<cmdl_vars,
    repl_vars,
    send_vars,
    pad_vars,
    scope_vars,
    padawan_vars,
    safe_vars,
    exports_vars,
    manifest_vars,
    webl_vars,
    sites_vars,
    message_vars,
    graph_vars>>
outside_exports == <<cmdl_vars,
    repl_vars,
    send_vars,
    pad_vars,
    scope_vars,
    padawan_vars,
    safe_vars,
    strip_vars,
    manifest_vars,
    webl_vars,
    sites_vars,
    message_vars,
    graph_vars>>
outside_manifest == <<cmdl_vars,
    repl_vars,
    send_vars,
    pad_vars,
    scope_vars,
    padawan_vars,
    safe_vars,
    strip_vars,
    exports_vars,
    webl_vars,
    sites_vars,
    message_vars,
    graph_vars>>
outside_webl == <<cmdl_vars,
    repl_vars,
    send_vars,
    pad_vars,
    scope_vars,
    padawan_vars,
    safe_vars,
    strip_vars,
    exports_vars,
    manifest_vars,
    sites_vars,
    message_vars,
    graph_vars>>
outside_sites == <<cmdl_vars,
    repl_vars,
    send_vars,
    pad_vars,
    scope_vars,
    padawan_vars,
    safe_vars,
    strip_vars,
    exports_vars,
    manifest_vars,
    webl_vars,
    message_vars,
    graph_vars>>
outside_message == <<cmdl_vars,
    repl_vars,
    send_vars,
    pad_vars,
    scope_vars,
    padawan_vars,
    safe_vars,
    strip_vars,
    exports_vars,
    manifest_vars,
    webl_vars,
    sites_vars,
    graph_vars>>
outside_graph == <<cmdl_vars,
    repl_vars,
    send_vars,
    pad_vars,
    scope_vars,
    padawan_vars,
    safe_vars,
    strip_vars,
    exports_vars,
    manifest_vars,
    webl_vars,
    sites_vars,
    message_vars>>

---------------------------------------------------------------------------
(***************************************************************************)
(* cmdl.js: the padawan transport.                                         *)
(***************************************************************************)

NoReport == [none |-> TRUE]
DiedReport == [exception |-> "CMDL died."]

IdleEval == [st |-> "idle", script |-> Undefined, msg |-> Undefined,
             report |-> NoReport]

NoProc == [st |-> "none", killed |-> FALSE, port |-> Undefined,
           connected |-> FALSE]

Live(p) == procs[p].st \in {"starting", "running"}

\* The padawan's evaluate(): a report holding either the inspected value or
\* the inspected exception, never both.
Evaluate(script) ==
    IF script = "throw"
    THEN [exception |-> "Error: " \o script]
    ELSE [evaluation |-> "'" \o script \o "'"]

\* on_evaluated: report.id = command.id.
TagReport(report, command) ==
    [k \in DOMAIN report \cup {"id"} |->
        IF k = "id" THEN command.id ELSE report[k]]

\* relay_report: const id = report.id; delete report.id.
StripId(report) == [k \in DOMAIN report \ {"id"} |-> report[k]]

Field(report, k) == IF k \in DOMAIN report THEN report[k] ELSE Undefined

\* make.js send: the host's result message for a report.
HostResult(report, message_id) ==
    [evaluation |-> Field(report, "evaluation"),
     exception |-> Field(report, "exception"),
     id |-> message_id]

\* Calling the 'resolve' function stored for 'id' with 'report'. A Promise
\* settles once: resolving a settled Promise does nothing.
SettleOverwrite(ev, id, report) ==
    [ev EXCEPT ![id] = [@ EXCEPT !.st = "resolved", !.report = report]]

Settle(ev, id, report) ==
    IF ev[id].st = "pending"
    THEN [ev EXCEPT ![id] = [@ EXCEPT !.st = "resolved", !.report = report]]
    ELSE ev

\* cmdl_repl.js on_eval: the reaction to the resolved Promise hands the report
\* to the host's callback.
Deliver(old_ev, new_ev, res) ==
    [e \in EvalIds |->
        IF old_ev[e].st = "pending" /\ new_ev[e].st = "resolved"
        THEN HostResult(new_ev[e].report, new_ev[e].msg)
        ELSE res[e]]

\* relay_report: report_callbacks[id].
CallbackAny(id, table) == CHOOSE x \in table : \A y \in table : x <= y

CallbackFor(id, table) == id

\* The exit handler's test for resurrecting the padawan.
ShouldRestartInverted(p) == procs[p].killed /\ socket # NoProcess

ShouldRestart(p) == ~procs[p].killed /\ socket # NoProcess

FreeProcs == {p \in ProcIds : procs[p].st = "none"}
NextProc == CHOOSE p \in FreeProcs : \A q \in FreeProcs : p <= q

\* start_padawan: spawn_padawan(tcp_server.address().port) is called and a
\* listener awaits the connection.
StartPadawan(ps) ==
    [ps EXCEPT ![NextProc] = [st |-> "requested", killed |-> FALSE,
                              port |-> tcp_port, connected |-> FALSE]]

CmdlInit ==
    /\ tcp_listening = FALSE
    /\ tcp_port = Undefined
    /\ listen_pending = FALSE
    /\ created = FALSE
    /\ procs = [p \in ProcIds |-> NoProc]
    /\ padawan_process = NoProcess
    /\ socket = NoProcess
    /\ waiters = 0
    /\ readers = [p \in ProcIds |-> 0]
    /\ report_callbacks = {}
    /\ evals = [e \in EvalIds |-> IdleEval]
    /\ wire_commands = [p \in ProcIds |-> {}]
    /\ wire_reports = [p \in ProcIds |-> {}]
    /\ results = [e \in EvalIds |-> NoReport]
    /\ master = "up"
    /\ later_creates = 0
    /\ destroys = 0
    /\ destroy_resolved = 0
    /\ closing = FALSE

\* create(): the TCP server is not listening, so it is started.
Create ==
    /\ master = "up"
    /\ ~tcp_listening
    /\ ~listen_pending
    /\ tcp_port = Undefined
    /\ listen_pending' = TRUE
    /\ UNCHANGED <<tcp_listening, tcp_port, created, procs, padawan_process,
                   socket, waiters, readers, report_callbacks, evals,
                   wire_commands, wire_reports, results, master>>
    /\ UNCHANGED life_vars
    /\ UNCHANGED outside_cmdl

\* create() is called after destroy(): the TCP server listens no more, so it
\* is started again, whatever has become of the padawan that was sent the
\* signal.
CreateAfterDestroy ==
    /\ master = "up"
    /\ ~tcp_listening
    /\ ~listen_pending
    /\ tcp_port # Undefined
    /\ FreeProcs # {}
    /\ listen_pending' = TRUE
    /\ UNCHANGED <<tcp_listening, tcp_port, created, procs, padawan_process,
                   socket, waiters, readers, report_callbacks, evals,
                   wire_commands, wire_reports, results, master>>
    /\ UNCHANGED life_vars
    /\ UNCHANGED outside_cmdl

\* The listen callback: the server has its port, and start_padawan runs.
Listening ==
    /\ master = "up"
    /\ listen_pending
    /\ FreeProcs # {}
    /\ listen_pending' = FALSE
    /\ tcp_listening' = TRUE
    /\ \E port \in Ports :
        /\ tcp_port' = port
        /\ procs' = [procs EXCEPT ![NextProc] =
                        [st |-> "requested", killed |-> FALSE,
                         port |-> port, connected |-> FALSE]]
    /\ waiters' = waiters + 1
    /\ UNCHANGED <<created, padawan_process, socket, readers,
                   report_callbacks, evals, wire_commands, wire_reports,
                   results, master>>
    /\ UNCHANGED life_vars
    /\ UNCHANGED outside_cmdl

\* spawn_padawan's Promise resolves to the child process and 'register' runs:
\* the exit handler is attached and padawan_process is set.
Register(p) ==
    /\ master = "up"
    /\ procs[p].st = "requested"
    /\ procs' = [procs EXCEPT ![p].st = "starting"]
    /\ padawan_process' = p
    /\ UNCHANGED <<tcp_listening, tcp_port, listen_pending, created, socket,
                   waiters, readers, report_callbacks, evals, wire_commands,
                   wire_reports, results, master>>
    /\ UNCHANGED life_vars
    /\ UNCHANGED outside_cmdl

\* The child's "spawn" event.
Spawned(p) ==
    /\ master = "up"
    /\ procs[p].st = "starting"
    /\ procs' = [procs EXCEPT ![p].st = "running"]
    /\ UNCHANGED <<tcp_listening, tcp_port, listen_pending, created,
                   padawan_process, socket, waiters, readers,
                   report_callbacks, evals, wire_commands, wire_reports,
                   results, master>>
    /\ UNCHANGED life_vars
    /\ UNCHANGED outside_cmdl

\* The padawan program connects to the port it was given. Every pending
\* once("connection") listener runs: the socket becomes the channel and a
\* line reader is attached to it.
Connect(p) ==
    /\ master = "up"
    /\ procs[p].st = "running"
    /\ ~procs[p].connected
    /\ tcp_listening
    /\ procs[p].port = tcp_port
    /\ procs' = [procs EXCEPT ![p].connected = TRUE]
    /\ IF waiters > 0
       THEN /\ socket' = p
            /\ readers' = [readers EXCEPT ![p] = waiters]
            /\ waiters' = 0
            /\ created' = TRUE
       ELSE UNCHANGED <<socket, readers, waiters, created>>
    /\ UNCHANGED <<tcp_listening, tcp_port, listen_pending, padawan_process,
                   report_callbacks, evals, wire_commands, wire_reports,
                   results, master>>
    /\ UNCHANGED life_vars
    /\ UNCHANGED outside_cmdl

\* eval_module(script, imports, wait), called by the host once create() has
\* resolved. Writing to an undefined socket throws inside the Promise's
\* executor, which rejects the Promise; the callback is already stored.
Eval(e, script, message_id) ==
    /\ master = "up"
    /\ created
    /\ evals[e].st = "idle"
    /\ \A d \in EvalIds : d < e => evals[d].st # "idle"
    /\ report_callbacks' = report_callbacks \cup {e}
    /\ IF socket = NoProcess
       THEN /\ evals' = [evals EXCEPT ![e] =
                            [st |-> "rejected", script |-> script,
                             msg |-> message_id, report |-> NoReport]]
            /\ UNCHANGED wire_commands
       ELSE /\ evals' = [evals EXCEPT ![e] =
                            [st |-> "pending", script |-> script,
                             msg |-> message_id, report |-> NoReport]]
            /\ wire_commands' = [wire_commands EXCEPT ![socket] =
                                    @ \cup {[id |-> e, script |-> script]}]
    /\ UNCHANGED <<tcp_listening, tcp_port, listen_pending, created, procs,
                   padawan_process, socket, waiters, readers, wire_reports,
                   results, master>>
    /\ UNCHANGED life_vars
    /\ UNCHANGED outside_cmdl

\* The padawan consumes a command, evaluates it and writes its report. The
\* commands are evaluated concurrently, so the reports come in any order.
PadawanReport(p, command) ==
    /\ procs[p].st = "running"
    /\ procs[p].connected
    /\ command \in wire_commands[p]
    /\ wire_commands' = [wire_commands EXCEPT ![p] = @ \ {command}]
    /\ wire_reports' = [wire_reports EXCEPT ![p] =
                            @ \cup {TagReport(Evaluate(command.script),
                                              command)}]
    /\ UNCHANGED <<tcp_listening, tcp_port, listen_pending, created, procs,
                   padawan_process, socket, waiters, readers,
                   report_callbacks, evals, results, master>>
    /\ UNCHANGED life_vars
    /\ UNCHANGED outside_cmdl

\* relay_report(line). A report whose id has no callback makes the line
\* handler throw, which is an uncaught exception of the master.
RelayReport(p, report) ==
    /\ master = "up"
    /\ readers[p] > 0
    /\ report \in wire_reports[p]
    /\ wire_reports' = [wire_reports EXCEPT ![p] = @ \ {report}]
    /\ IF report.id \in report_callbacks
       THEN LET callback == CallbackFor(report.id, report_callbacks)
                settled == Settle(evals, callback, StripId(report))
            IN  /\ evals' = settled
                /\ results' = Deliver(evals, settled, results)
                /\ UNCHANGED master
       ELSE /\ master' = "crashed"
            /\ UNCHANGED <<evals, results>>
    /\ UNCHANGED <<tcp_listening, tcp_port, listen_pending, created, procs,
                   padawan_process, socket, waiters, readers,
                   report_callbacks, wire_commands>>
    /\ UNCHANGED life_vars
    /\ UNCHANGED outside_cmdl

RECURSIVE SettleAll(_, _, _)
SettleAll(ev, ids, report) ==
    IF ids = {}
    THEN ev
    ELSE LET id == CHOOSE x \in ids : TRUE
         IN  SettleAll(Settle(ev, id, report), ids \ {id}, report)

\* The child's "exit" event, handled by the listener 'register' attached.
Exit(p) ==
    /\ master = "up"
    /\ Live(p)
    /\ ShouldRestart(p) => FreeProcs # {}
    /\ LET settled == SettleAll(evals, report_callbacks, DiedReport)
           exited == [procs EXCEPT ![p].st = "exited"]
       IN  /\ evals' = settled
           /\ results' = Deliver(evals, settled, results)
           /\ report_callbacks' = {}
           /\ IF ShouldRestart(p)
              THEN /\ procs' = StartPadawan(exited)
                   /\ waiters' = waiters + 1
              ELSE /\ procs' = exited
                   /\ UNCHANGED waiters
           /\ socket' = NoProcess
    /\ UNCHANGED <<tcp_listening, tcp_port, listen_pending, created,
                   padawan_process, readers, wire_commands, wire_reports,
                   master>>
    /\ UNCHANGED life_vars
    /\ UNCHANGED outside_cmdl

\* destroy(): the current padawan, if it is running, is sent a signal, and
\* the TCP server stops listening.
Destroy ==
    /\ master = "up"
    /\ ~listen_pending
    /\ tcp_listening
    /\ destroys < MaxDestroys
    /\ procs' = IF padawan_process # NoProcess /\ Live(padawan_process)
                THEN [procs EXCEPT ![padawan_process].killed = TRUE]
                ELSE procs
    /\ tcp_listening' = FALSE
    /\ destroys' = destroys + 1
    /\ closing' = TRUE
    /\ UNCHANGED <<tcp_port, listen_pending, created, padawan_process, socket,
                   waiters, readers, report_callbacks, evals, wire_commands,
                   wire_reports, results, master, later_creates,
                   destroy_resolved>>
    /\ UNCHANGED outside_cmdl

\* The callback of tcp_server.close(): the server has stopped listening and
\* every connection to it has ended; the Promise of destroy() resolves.
ServerClosed ==
    /\ master = "up"
    /\ closing
    /\ \A p \in ProcIds : ~(Live(p) /\ procs[p].connected)
    /\ closing' = FALSE
    /\ destroy_resolved' = destroy_resolved + 1
    /\ UNCHANGED <<tcp_listening, tcp_port, listen_pending, created, procs,
                   padawan_process, socket, waiters, readers,
                   report_callbacks, evals, wire_commands, wire_reports,
                   results, master, later_creates, destroys>>
    /\ UNCHANGED outside_cmdl

\* destroy() is called again: the process in 'padawan_process' is sent a
\* signal if it runs, and tcp_server.close() calls back at once, with an
\* error, because the server is not running: the Promise resolves.
DestroyAgain ==
    /\ master = "up"
    /\ destroys > 0
    /\ destroys < MaxDestroys
    /\ ~tcp_listening
    /\ procs' = IF padawan_process # NoProcess /\ Live(padawan_process)
                THEN [procs EXCEPT ![padawan_process].killed = TRUE]
                ELSE procs
    /\ destroys' = destroys + 1
    /\ destroy_resolved' = destroy_resolved + 1
    /\ UNCHANGED <<tcp_listening, tcp_port, listen_pending, created,
                   padawan_process, socket, waiters, readers,
                   report_callbacks, evals, wire_commands, wire_reports,
                   results, master, later_creates, closing>>
    /\ UNCHANGED outside_cmdl

\* create() is called while the TCP server listens: it returns a resolved
\* Promise, whatever the state of the padawan.
CreateAgain ==
    /\ master = "up"
    /\ tcp_listening
    /\ later_creates < MaxCreates
    /\ later_creates' = later_creates + 1
    /\ UNCHANGED <<tcp_listening, tcp_port, listen_pending, created, procs,
                   padawan_process, socket, waiters, readers,
                   report_callbacks, evals, wire_commands, wire_reports,
                   results, master, destroys, destroy_resolved, closing>>
    /\ UNCHANGED outside_cmdl

CmdlNext ==
    \/ Create
    \/ Listening
    \/ \E p \in ProcIds : Register(p)
    \/ \E p \in ProcIds : Spawned(p)
    \/ \E p \in ProcIds : Connect(p)
    \/ \E e \in EvalIds, s \in Scripts, m \in MessageIds : Eval(e, s, m)
    \/ \E p \in ProcIds : \E c \in wire_commands[p] : PadawanReport(p, c)
    \/ \E p \in ProcIds : \E r \in wire_reports[p] : RelayReport(p, r)
    \/ \E p \in ProcIds : Exit(p)
    \/ Destroy
    \/ ServerClosed
    \/ DestroyAgain
    \/ CreateAgain

(***************************************************************************)
(* repl.js: the caches of make_repl and the version registry.              *)
(*                                                                         *)
(* Three modules are on disk: "a" imports "b", which imports "c".  A file  *)
(* holds one of two module texts, or is in one of three troubled states:   *)
(* "gone" (capabilities.read rejects), "binary" (the bytes are not UTF-8,  *)
(* so decoding throws), "garbled" (the text does not parse as a module).   *)
(*                                                                         *)
(* Promise reactions run as microtasks, before the next event: a step      *)
(* below is one event together with the reactions it sets off.  The digest *)
(* (crypto.subtle) and the capabilities complete in events of their own.   *)
(***************************************************************************)
None == "none"
NoVersion == -1
Rejected == -2
Locs == {"a", "b", "c"}
\* The modules that are imported by name: versionize is called on them.
Roots == {"a", "b"}
Dep == [a |-> "b", b |-> "c", c |-> None]
Sources == {"x", "y"}
Faults == {"gone", "binary", "garbled"}
Contents == Sources \cup Faults
\* What is written to each file: "a" is left alone, "b" stays a module.
Written == [a |-> {}, b |-> Sources, c |-> Contents]

RECURSIVE Chain(_)
\* The locator followed by its transitive imports.
Chain(L) == IF Dep[L] = None THEN <<L>> ELSE <<L>> \o Chain(Dep[L])

Range(s) == {s[i] : i \in DOMAIN s}
Closure(L) == Range(Chain(L))

NoHash == [sha1 |-> <<>>]
FreeRead == [st |-> "free", val |-> None]
NoJob == [loc |-> None, hs |-> <<>>, an |-> <<>>, phase |-> "idle",
          quiet |-> FALSE, fresh |-> FALSE]

\* digest(...args): SHA-1 over the arguments joined by commas.  SHA-1 is
\* taken to be free of collisions; the arguments are one source, or hashes,
\* which hold no comma, so that the joining loses nothing.
digest(args) == [sha1 |-> args]

\* The caches, gathered so that the functions below can thread them.
Cache == [reads |-> reads, reading |-> reading, hashing |-> hashing,
          analyzing |-> analyzing, read_calls |-> read_calls,
          ret |-> NoRead]

\* The Promises made by read(L) are told apart by a number; a number is
\* free when its Promise is settled and nothing can reach it.
FreeIds(C, L) == {id \in ReadIds : C.reads[L][id].st = "free"}

\* Whether a read(L) can be modelled: it is cached or a number is left.
CanRead(C, L) == C.reading[L] # NoRead \/ FreeIds(C, L) # {}

\* A read that does not keep its Promise.
readUncached(C, L) ==
    LET id == CHOOSE i \in FreeIds(C, L) : \A k \in FreeIds(C, L) : i <= k
    IN  [C EXCEPT !.reads[L][id] = [st |-> "pending", val |-> None],
                  !.read_calls[L] = @ + 1,
                  !.ret = id]

\* read(locator): the cached Promise, else capabilities.read is called and
\* its Promise cached.  The content is not known until the file is read.
read(C, L) ==
    IF C.reading[L] # NoRead
    THEN [C EXCEPT !.ret = C.reading[L]]
    ELSE LET id == CHOOSE i \in FreeIds(C, L) : \A k \in FreeIds(C, L) : i <= k
         IN  [C EXCEPT !.reads[L][id] = [st |-> "pending", val |-> None],
                       !.reading[L] = id,
                       !.read_calls[L] = @ + 1,
                       !.ret = id]

\* An invalidation that leaves the analysis in its cache.
invalidateSourceOnly(C, L) ==
    [C EXCEPT !.reading[L] = NoRead,
              !.hashing[L] = NoRead,
              !.read_calls[L] = 0]

\* invalidate(): the three entries of the locator go together.
invalidate(C, L) ==
    [C EXCEPT !.reading[L] = NoRead,
              !.hashing[L] = NoRead,
              !.analyzing[L] = NoRead,
              !.read_calls[L] = 0]

\* analyze(locator): cached, else derived from read(locator).
analyze(C, L) ==
    IF C.analyzing[L] # NoRead
    THEN [C EXCEPT !.ret = C.analyzing[L]]
    ELSE LET R == read(C, L) IN [R EXCEPT !.analyzing[L] = R.ret]

\* hash_source(locator): cached, else derived from read(locator).
hash_source(C, L) ==
    IF C.hashing[L] # NoRead
    THEN [C EXCEPT !.ret = C.hashing[L]]
    ELSE LET R == read(C, L) IN [R EXCEPT !.hashing[L] = R.ret]

\* hash(locator), its synchronous part: hash_source and analyze are called.
hash(C, L) ==
    LET H == hash_source(C, L)
        A == analyze(H, L)
    IN  [cache |-> A, hs |-> H.ret, an |-> A.ret]

\* The Promises something can still reach: those of the caches and those the
\* versionize calls in flight wait for.
Referenced(C, jb, L) ==
    {C.reading[L], C.hashing[L], C.analyzing[L]}
    \cup UNION {UNION {{jb[j].hs[i], jb[j].an[i]} :
                           i \in {k \in DOMAIN jb[j].hs :
                                     Chain(jb[j].loc)[k] = L}} :
                    j \in JobIds}

\* Settled Promises that nothing reaches are collected.
Sweep(C, jb) ==
    [C EXCEPT !.reads = [L \in Locs |-> [id \in ReadIds |->
        IF /\ C.reads[L][id].st \in {"ok", "failed"}
           /\ id \notin Referenced(C, jb, L)
        THEN FreeRead ELSE C.reads[L][id]]]]

Commit(C) ==
    /\ reads' = C.reads
    /\ reading' = C.reading
    /\ hashing' = C.hashing
    /\ analyzing' = C.analyzing
    /\ read_calls' = C.read_calls

\* A cache entry of the locator holds content that is no longer on disk.
Stale(L) ==
    \E id \in {reading[L], hashing[L], analyzing[L]} \ {NoRead} :
        reads[L][id].val \notin {None, disk[L]}

\* What analyze's Promise does once its read has settled: parse_module
\* throws on text that is not a module.
Parsed(r) == r.st = "ok" /\ r.val \in Sources
Unparsed(r) == r.st = "failed" \/ (r.st = "ok" /\ r.val \notin Sources)

\* The locator a call in flight has reached in its walk down the imports.
Deepest(job) == Chain(job.loc)[Len(job.hs)]

\* hash(D) has been called on behalf of the versionize call 'job', H being
\* what it gave.  A source that has failed already, or does not parse,
\* rejects the call at once.
Bound(lc, job, D, H) ==
    [cache |-> H.cache, locating |-> lc, stuck |-> FALSE,
     job |-> IF \/ H.cache.reads[D][H.hs].st = "failed"
                \/ Unparsed(H.cache.reads[D][H.an])
             THEN NoJob
             ELSE [job EXCEPT !.hs = Append(@, H.hs),
                              !.an = Append(@, H.an),
                              !.phase = "read"]]

\* hash(D) is called on behalf of the versionize call 'job'.
Enter(C, lc, job, D) ==
    IF ~CanRead(C, D)
    THEN [cache |-> C, locating |-> lc, job |-> job, stuck |-> TRUE]
    ELSE Bound(lc, job, D, hash(C, D))

\* The analysis of the deepest locator has resolved: its specifiers are
\* located, and hash() is called on what an already located one names.
Progress(C, lc, job) ==
    IF Dep[Deepest(job)] = None
    THEN [cache |-> C, locating |-> lc,
          job |-> [job EXCEPT !.phase = "digest"], stuck |-> FALSE]
    ELSE IF lc[Deepest(job)] = "ok"
    THEN Enter(C, lc, job, Dep[Deepest(job)])
    ELSE [cache |-> C,
          locating |-> [lc EXCEPT ![Deepest(job)] = "pending"],
          job |-> [job EXCEPT !.phase = "locate"], stuck |-> FALSE]

\* One reaction of a versionize call to Promises that have settled.
Step(R) ==
    IF R.stuck THEN R
    ELSE IF /\ R.job.phase = "read"
            /\ Parsed(R.cache.reads[Deepest(R.job)][R.job.an[Len(R.job.an)]])
    THEN Progress(R.cache, R.locating, R.job)
    ELSE IF R.job.phase = "locate" /\ R.locating[Deepest(R.job)] = "ok"
    THEN Enter(R.cache, R.locating, R.job, Dep[Deepest(R.job)])
    ELSE R

\* The reactions of a versionize call, until it waits for something: at most
\* two for each locator of the walk.
Run(R) ==
    LET after[n \in 0..(2 * Cardinality(Locs))] ==
            IF n = 0 THEN R ELSE Step(after[n - 1])
    IN  after[2 * Cardinality(Locs)]

\* A source or analysis the call waits for has been rejected.
Spoilt(rs, job) ==
    \E i \in DOMAIN job.hs :
        \/ rs[Chain(job.loc)[i]][job.hs[i]].st = "failed"
        \/ Unparsed(rs[Chain(job.loc)[i]][job.an[i]])

Woken(W, j, R) ==
    [cache |-> R.cache, locating |-> R.locating,
     jobs |-> [W.jobs EXCEPT ![j] = R.job], stuck |-> W.stuck \/ R.stuck]

\* The reactions of the versionize call j to what has just settled.
Wake(W, j) ==
    IF W.jobs[j].phase = "idle" THEN W
    ELSE IF Spoilt(W.cache.reads, W.jobs[j])
    THEN [W EXCEPT !.jobs[j] = NoJob]
    ELSE Woken(W, j, Run([cache |-> W.cache, locating |-> W.locating,
                          job |-> W.jobs[j], stuck |-> FALSE]))

\* The reactions of every versionize call, in the order of the calls.
WakeAll(W) ==
    LET upto[n \in 0..MaxJobs] == IF n = 0 THEN W ELSE Wake(upto[n - 1], n)
    IN  upto[MaxJobs]

\* The locators whose versionize call is rejected, 'before' and 'after' being
\* the calls in flight before and after the rejections.
RejectedLocs(before, after) ==
    {before[j].loc : j \in {k \in JobIds : /\ before[k].phase # "idle"
                                           /\ after[k].phase = "idle"}}

\* The Promises of the versionize calls for the locators in 'locs' reject.
Reject(locs) ==
    /\ returned' = [L \in Locs |->
                      IF L \in locs THEN Rejected ELSE returned[L]]
    /\ issued' = [L \in Locs |->
                    IF L \in locs THEN issued[L] \cup {Rejected}
                    ELSE issued[L]]

\* What the reactions W have done becomes the state.
Install(W) ==
    /\ ~W.stuck
    /\ jobs' = W.jobs
    /\ locating' = W.locating
    /\ Commit(Sweep(W.cache, W.jobs))
    /\ Reject(RejectedLocs(jobs, W.jobs))

ReplInit ==
    /\ disk = [L \in Locs |-> "x"]
    /\ edits = 0
    /\ faults = 0
    /\ queries = 0
    /\ reads = [L \in Locs |-> [id \in ReadIds |-> FreeRead]]
    /\ reading = [L \in Locs |-> NoRead]
    /\ hashing = [L \in Locs |-> NoRead]
    /\ analyzing = [L \in Locs |-> NoRead]
    /\ locating = [L \in Locs |-> "none"]
    /\ armed = [L \in Locs |-> 0]
    /\ triggered = [L \in Locs |-> 0]
    /\ hashes = [L \in Locs |-> NoHash]
    /\ versions = [L \in Locs |-> NoVersion]
    /\ jobs = [j \in JobIds |-> NoJob]
    /\ returned = [L \in Locs |-> NoVersion]
    /\ issued = [L \in Locs |-> {}]
    /\ read_calls = [L \in Locs |-> 0]
    /\ errs = [L \in Locs |-> 0]

(***************************************************************************)
(* repl.js, send(message, on_result): the state of an evaluation request.  *)
(***************************************************************************)

MaxSends == 2
SendIds == 1..MaxSends

\* The specifiers a message's source may hold, the locator of the message,
\* and the locator capabilities.locate gives each specifier.
Specifiers == {"./dep.js", "pkg"}
Parent == "file:///work/main.js"
LocatorOf ==
    [s \in Specifiers |->
        IF s = "pkg" THEN "file:///work/node_modules/pkg/main.js"
        ELSE "file:///work/dep.js"]

\* What an exception's message names.
NoError == [kind |-> None, specifier |-> None, parent |-> None,
            locator |-> None]

\* parse_module throws on a source that is not a module.
SyntaxError == [NoError EXCEPT !.kind = "SyntaxError"]

\* node_resolve's fail(): "Failed to resolve '<specifier>' from <parent>."
ResolveError(s, p) ==
    [NoError EXCEPT !.kind = "Failed to resolve", !.specifier = s,
                    !.parent = p]

\* What versionize rejects with: the exception of capabilities.read, which
\* names the file ("Forbidden: <locator>", or the file system's error), or
\* that of the parse of the file.
ReadError(loc) == [NoError EXCEPT !.kind = "read", !.locator = loc]

\* eval_module's socket.write on an undefined socket.
TypeError == [NoError EXCEPT !.kind = "TypeError"]

NoSend ==
    [phase |-> "idle", specs |-> {}, stage |-> [s \in Specifiers |-> "none"],
     error |-> NoError, emitted |-> FALSE, results |-> 0]

SendInit == sends = [r \in SendIds |-> NoSend]

(***************************************************************************)
(* node_padawan.js, deno_padawan.js: the state of a padawan.               *)
(***************************************************************************)

MaxCommands == 3
CommandIds == 1..MaxCommands

\* The modules a command may import.
Modules == {"m", "n"}

\* A command that has not been written.
Unwritten == {None}

PadInit ==
    /\ pad_imports = [c \in CommandIds |-> Unwritten]
    /\ pad_wire = <<>>
    /\ pad_received = <<>>
    /\ pad_loading = [c \in CommandIds |-> {}]
    /\ pad_evaluated = <<>>

---------------------------------------------------------------------------
(***************************************************************************)
(* repl.js: source texts and their trees.  A text is a sequence of tokens; *)
(* a position is a number of tokens from the start, as 'start' and 'end'   *)
(* of a node are a number of characters.  A line terminator is a token.    *)
(***************************************************************************)

\* A line terminator.
LF == "LF"

\* The names of the scopes that commands choose.
ScopeNames == {"A", "B"}

\* The identifiers that the sources declare, assign or read.
Identifiers == {"x", "a", "b", "r", "g", "f", "C"}

\* The slots of a scope: the declared identifiers, and the two slots that
\* script_template gives to every scope.
Slots == Identifiers \cup {"$default", "$value"}

\* The specifier that the REPL resolved a specifier of the source to.
ResolvedSpecifier == "'http://127.0.0.1/v0/d.js'"

\* A slot that a scope object does not have.
Absent == "absent"

\* The value of an uninitialised slot.
undefined == "undefined"

\* A node of the tree that acorn makes of a statement.  'text' is the
\* statement's own text, and every position is counted from its start.
\*   declaration      the type of node.declaration, "null" when there is none
\*   declaration_start, declarations_start
\*                    where node.declaration and declarations[0] start
\*   id               the declarator's 'id' or the declaration's name
\*   init_end         where the declarator's 'init' ends, -1 when it is null
\*   binds            the names that the statement binds, with their values
\*   operands         the values of the operands of the expression
\*   awaits           the places of the statement that hold an await
\*   dynamic          the range of a dynamic specifier, <<>> when none
Node(type, text) ==
    [type |-> type, text |-> text, declaration |-> "none",
     declaration_start |-> 0, declarations_start |-> 0,
     id |-> [type |-> "none", start |-> 0, end |-> 0, keys |-> <<>>],
     init_end |-> -1, binds |-> <<>>, expression |-> "none",
     operands |-> <<>>, awaits |-> {}, dynamic |-> <<>>, source |-> <<>>]

Bind(name, value) == [name |-> name, value |-> value]

\*      import {
\*          a
\*      } from "./m.js";
ImportStatement ==
    [Node("ImportDeclaration",
               <<"import", "{", LF, "a", LF, "}", "from", "'./m.js'", ";">>)
     EXCEPT !.binds = <<Bind("a", "m.a")>>, !.source = <<7, 8>>]

\*      export default 1;
ExportDefaultStatement ==
    [Node("ExportDefaultDeclaration", <<"export", "default", "1", ";">>)
     EXCEPT !.declaration = "Literal", !.declaration_start = 2,
            !.operands = <<"1">>]

\*      export * from
\*          "./m.js";
ExportAllStatement ==
    [Node("ExportAllDeclaration",
               <<"export", "*", "from", LF, "'./m.js'", ";">>)
     EXCEPT !.source = <<4, 5>>]

\*      export {x};
ExportListStatement ==
    [Node("ExportNamedDeclaration", <<"export", "{", "x", "}", ";">>)
     EXCEPT !.declaration = "null"]

\*      export
\*      const g = 1;
ExportConstStatement ==
    [Node("ExportNamedDeclaration",
               <<"export", LF, "const", "g", "=", "1", ";">>)
     EXCEPT !.declaration = "VariableDeclaration", !.declaration_start = 2,
            !.declarations_start = 3,
            !.id = [type |-> "Identifier", start |-> 3, end |-> 4,
                    keys |-> <<"g">>],
            !.init_end = 6, !.binds = <<Bind("g", "1")>>]

\*      const x = 1;
ConstStatement ==
    [Node("VariableDeclaration", <<"const", "x", "=", "1", ";">>)
     EXCEPT !.declarations_start = 1,
            !.id = [type |-> "Identifier", start |-> 1, end |-> 2,
                    keys |-> <<"x">>],
            !.init_end = 4, !.binds = <<Bind("x", "1")>>]

\*      let x;
LetStatement ==
    [Node("VariableDeclaration", <<"let", "x", ";">>)
     EXCEPT !.declarations_start = 1,
            !.id = [type |-> "Identifier", start |-> 1, end |-> 2,
                    keys |-> <<"x">>],
            !.binds = <<Bind("x", undefined)>>]

\*      const {
\*          a,
\*          b
\*      } = {a: 1, b: 2};
DestructureStatement ==
    [Node("VariableDeclaration",
               <<"const", "{", LF, "a", ",", LF, "b", LF, "}", "=",
                 "{a: 1, b: 2}", ";">>)
     EXCEPT !.declarations_start = 1,
            !.id = [type |-> "ObjectPattern", start |-> 1, end |-> 9,
                    keys |-> <<"a", "b">>],
            !.init_end = 11, !.binds = <<Bind("a", "1"), Bind("b", "2")>>]

\*      const {a: r} = {a: 1, b: 2};
RenameStatement ==
    [Node("VariableDeclaration",
               <<"const", "{", "a", ":", "r", "}", "=", "{a: 1, b: 2}",
                 ";">>)
     EXCEPT !.declarations_start = 1,
            !.id = [type |-> "ObjectPattern", start |-> 1, end |-> 6,
                    keys |-> <<"a">>],
            !.init_end = 8, !.binds = <<Bind("r", "1")>>]

\*      function f() {}
FunctionStatement ==
    [Node("FunctionDeclaration", <<"function", "f", "(", ")", "{", "}">>)
     EXCEPT !.id = [type |-> "Identifier", start |-> 1, end |-> 2,
                    keys |-> <<"f">>],
            !.binds = <<Bind("f", "function $f")>>]

\*      class C {}
ClassStatement ==
    [Node("ClassDeclaration", <<"class", "C", "{", "}">>)
     EXCEPT !.id = [type |-> "Identifier", start |-> 1, end |-> 2,
                    keys |-> <<"C">>],
            !.binds = <<Bind("C", "class C")>>]

\*      x;
ReadStatement ==
    [Node("ExpressionStatement", <<"x", ";">>)
     EXCEPT !.expression = "Identifier", !.operands = <<"x">>]

\*      1, 2;
SequenceStatement ==
    [Node("ExpressionStatement", <<"1", ",", "2", ";">>)
     EXCEPT !.expression = "SequenceExpression", !.operands = <<"1", "2">>]

\*      await 3;
AwaitStatement ==
    [Node("ExpressionStatement", <<"await", "3", ";">>)
     EXCEPT !.expression = "AwaitExpression", !.operands = <<"3">>,
            !.awaits = {"expression"}]

\*      for (const i of await []) {}
ForOfStatement ==
    [Node("ForOfStatement",
               <<"for", "(", "const", "i", "of", "await", "[]", ")", "{",
                 "}">>)
     EXCEPT !.awaits = {"right"}]

\*      import.meta.resolve(
\*          "./d.js"
\*      );
ResolveStatement ==
    [Node("ExpressionStatement",
               <<"import.meta.resolve", "(", LF, "'./d.js'", LF, ")", ";">>)
     EXCEPT !.expression = "CallExpression", !.operands = <<ResolvedSpecifier>>,
            !.dynamic = <<0, 6>>]

\* The statements that the sources are made of.
Statements ==
    {ImportStatement, ExportDefaultStatement, ExportAllStatement,
     ExportListStatement, ExportConstStatement, ConstStatement,
     LetStatement, DestructureStatement, RenameStatement, FunctionStatement,
     ClassStatement, ReadStatement, SequenceStatement, AwaitStatement,
     ForOfStatement, ResolveStatement}

\* The number of statements in a source.
MaxStatements == 2

\* The number of sources evaluated.
MaxEvaluations == 2

\* The trees of the sources: parse_module(source).body.
Trees == UNION {[1..n -> Statements] : n \in 1..MaxStatements}

\* Where the k-th statement of a tree starts in the text of the source.
RECURSIVE StartOf(_, _)
StartOf(tree, k) ==
    IF k = 1 THEN 0 ELSE StartOf(tree, k - 1) + Len(tree[k - 1].text) + 1

\* The text of the source of a tree: a statement on each line.
RECURSIVE TextOf(_)
TextOf(tree) ==
    IF Len(tree) = 1
    THEN tree[1].text
    ELSE TextOf(SubSeq(tree, 1, Len(tree) - 1)) \o <<LF>>
            \o tree[Len(tree)].text

\* A scope that was never used, a script that was never made, and an
\* evaluation that never happened.
NoScope == [s \in Slots |-> Absent]
NoScript == [threw |-> "nothing", scope |-> "", tree |-> <<>>]
NoEvaluation == [scope |-> "", threw |-> "nothing", promise |-> FALSE,
                 value |-> undefined, tree |-> <<>>]

\* No module being served.
NoModule == [tree |-> <<>>, text |-> <<>>]

ScopeInit ==
    /\ scopes = [n \in ScopeNames |-> NoScope]
    /\ replized = NoScript
    /\ evaluation = NoEvaluation
    /\ evaluations = 0
    /\ served = NoModule

(***************************************************************************)
(* node_padawan.js: the commands the padawan reads and the reports it      *)
(* writes.                                                                 *)
(***************************************************************************)
MaxLines == 2
LineIds == 1..MaxLines

\* The scripts of the commands, and the import specifiers.  A specifier in
\* 'Missing' names a module that can not be loaded.
PadawanScripts == {"1", "throw 2", "Promise.resolve(3)", "Promise.reject(4)",
                   "new Promise(() => {})"}
Missing == {"./missing.js"}
ImportArrays == {<<>>, <<"./a.js">>, <<"./missing.js">>,
                 <<"./a.js", "./missing.js">>}

NoCommand == [script |-> "", imports |-> <<>>, wait |-> FALSE, id |-> 0]
NotEvaluated == [evaluated |-> FALSE, imports |-> <<>>]
Unbound == [bound |-> FALSE, modules |-> <<>>]

\* node_padawan.js: nothing has been read from the socket.
PadawanInit ==
    /\ commands = [c \in LineIds |-> NoCommand]
    /\ importing = [c \in LineIds |-> {}]
    /\ stage = [c \in LineIds |-> "unread"]
    /\ imports_bound = Unbound
    /\ evaluated_with = [c \in LineIds |-> NotEvaluated]
    /\ written = <<>>

(***************************************************************************)
(* make.js: safe_read.  A string is the sequence of its characters, but    *)
(* for the scheme "file://", which is one element.                         *)
(***************************************************************************)
MaxPath == 5
PathChars == {"/", ".", "p", "q"}
file == "file://"

\* The paths: they begin with a slash.
Paths == {path \in UNION {[1..n -> PathChars] : n \in 1..MaxPath} :
            path[1] = "/"}

\* The locators that are read: file URLs, and paths that are not URLs.
FileLocators == {<<file>> \o path : path \in Paths} \cup Paths

\* The values of options.root_locator.
RootLocators == {<<file, "/", "p">>, <<file, "/", "p", "/">>,
                 <<file, "/", "p", "/", "q">>}

NoLocator == <<>>
NoRequest == [locator |-> NoLocator, for |-> "", stage |-> ""]
NoEntries == [reading |-> {}, hashing |-> {}, analyzing |-> {}]
NothingOpened == <<"nothing">>

SafeInit ==
    /\ root_locator = NoLocator
    /\ request = NoRequest
    /\ cached = NoEntries
    /\ opened = NothingOpened
    /\ rejection = ""

(***************************************************************************)
(* repl.js: the versioned locators.  A locator is written segment by       *)
(* segment, a segment being a sequence of characters; the unguessable and  *)
(* the extension ".js" are one element each.                               *)
(***************************************************************************)
MaxSegments == 3
MaxVersion == 1
Unguessables == {"abcd", "wxyz"}
PathSegmentsOf == {<<"p">>, <<".">>, <<".", ".">>, <<"v", "0">>, <<"abcd">>,
                   <<"wxyz">>, <<"p", ".js">>}
http == "http://h"

\* The path made of the segments: "/" before each.
RECURSIVE PathOf(_, _)
PathOf(segments, i) ==
    IF i > Len(segments) THEN <<>>
    ELSE <<"/">> \o segments[i] \o PathOf(segments, i + 1)

\* The locators given to versionize: files, and what is fetched over HTTP.
VersionedPaths ==
    {PathOf(segments, 1) :
        segments \in UNION {[1..n -> PathSegmentsOf] : n \in 1..MaxSegments}}
LocatorsToVersion ==
    {<<file>> \o path : path \in VersionedPaths}
    \cup {<<http>> \o path : path \in VersionedPaths}

NotVersionized == [locator |-> <<>>, version |-> 0, result |-> <<>>]

StripInit ==
    /\ unguessable = ""
    /\ versionized = NotVersionized
    /\ asked = <<>>
    /\ delivered = <<>>

(***************************************************************************)
(* node_resolve.js: the manifests.  A JSON value is a record of the same   *)
(* shape whatever its type: a string is the sequence of its parts, an      *)
(* array has items, an object has entries in the order they were written.  *)
(***************************************************************************)
MaxEntries == 2

Str(parts) == [type |-> "string", string |-> parts, items |-> <<>>]
Null == [type |-> "null", string |-> <<>>, items |-> <<>>]
NoValue == [type |-> "undefined", string |-> <<>>, items |-> <<>>]
Arr(items) == [type |-> "array", string |-> <<>>, items |-> items]
Obj(entries) == [type |-> "object", string |-> <<>>, items |-> entries]
Entry(key, value) == [type |-> "entry", string |-> key, items |-> <<value>>]

\* The conditions of a conditional export, and the files it may name.
Conditions == {"import", "module", "default", "require", "node"}
Files == {Str(<<"./", "dist/", "a", ".js">>),
          Str(<<"./", "dist/", "b", ".mjs">>),
          Null}

\* The objects that have up to MaxEntries of the conditions, in every order.
Conditional(values) ==
    {Obj(entries) :
        entries \in {e \in UNION {[1..n -> {Entry(<<k>>, v) :
                                    k \in Conditions, v \in values}] :
                                  n \in 1..MaxEntries} :
                        \A i, j \in DOMAIN e :
                            i # j => e[i].string # e[j].string}}

\* The values of a subpath of "exports": a file, a conditional, a conditional
\* in a condition, or an array.
Nested ==
    {Obj(<<Entry(<<k>>, Obj(<<Entry(<<c>>, v)>>)),
           Entry(<<"default">>, Str(<<"./", "dist/", "b", ".mjs">>))>>) :
        k \in {"import", "node"}, c \in {"default", "node"},
        v \in {Str(<<"./", "dist/", "a", ".js">>)}}
Arrays ==
    {Arr(<<>>)} \cup {Arr(<<v>>) : v \in Files}
    \cup {Arr(<<v, w>>) : v \in Files, w \in Files}
Targets == Files \cup Conditional(Files) \cup Nested \cup Arrays

\* The keys of "exports" with a "*", and their values.
GlobKeys == {<<"./", "*">>, <<"./", "*", ".js">>, <<"./", "w/", "*">>}
GlobTargets == {Str(<<"./", "dist/", "*">>),
                Str(<<"./", "dist/", "*", ".mjs">>),
                Str(<<"./", "dist/", "a", ".js">>),
                Null,
                Obj(<<Entry(<<"import">>, Str(<<"./", "dist/", "*">>))>>)}

\* The conditionals that have none of "import", "module" and "default".
Unrecognised == {Obj(<<Entry(<<k>>, v)>>) :
                    k \in {"require", "node"}, v \in Files}

\* The subpaths that are asked of a package: "." is its root.
Root == <<".">>
Externals == {Root, <<"./", "a", ".js">>, <<"./", "b", ".js">>,
              <<"./", "w/", "a", ".js">>, <<"./", "w/", "a", ".svg">>}

\* The "exports" of the manifests.
ExportsOf ==
    {Obj(<<Entry(<<"./", "a", ".js">>, v)>>) : v \in Targets}
    \cup {Obj(<<Entry(<<"./", "a", ".js">>, v), Entry(k, g)>>) :
            v \in Files \cup Unrecognised, k \in GlobKeys,
            g \in GlobTargets}
    \cup {Obj(<<Entry(k, g), Entry(<<"./", "w/", "a", ".js">>, v)>>) :
            v \in Files, k \in GlobKeys, g \in GlobTargets}
    \cup {Obj(<<Entry(Root, v)>>) : v \in Files \cup Nested}
    \cup Files \cup Nested

Manifests ==
    [exports : ExportsOf \cup {NoValue},
     main : {NoValue, Str(<<"./", "main", ".js">>)},
     module : {NoValue, Null, Str(<<"./", "module", ".js">>)}]

NotResolving == [external |-> <<>>,
                 manifest |-> [exports |-> NoValue, main |-> NoValue,
                               module |-> NoValue]]

ExportsInit ==
    /\ resolving = NotResolving
    /\ internal = NoValue

(***************************************************************************)
(* node_resolve.js: find_manifest.  A directory is the sequence of the     *)
(* names that lead to it from the root of the filesystem.                  *)
(***************************************************************************)
MaxDepth == 3
MaxInstalled == 2
DirNames == {"a", "b"}
Directories == UNION {[1..n -> DirNames] : n \in 0..MaxDepth}

\* A package.json of the package, in the node_modules of a directory: it
\* holds a manifest, or something that JSON.parse refuses.
Installations == Directories \X {"manifest", "malformed"}

\* The ways of installing the package in up to n directories.
RECURSIVE Installed(_)
Installed(n) ==
    IF n = 0 THEN {{}}
    ELSE LET fewer == Installed(n - 1)
         IN  fewer \cup UNION {
                {some \cup {one} :
                    one \in {i \in Installations :
                                \A other \in some : other[1] # i[1]}} :
                some \in fewer}

NoURL == [directory |-> <<>>, file |-> FALSE]
NoSearch == [stage |-> "", parent |-> <<>>, manifest_url |-> <<"none">>]

ManifestInit ==
    /\ node_modules = {}
    /\ from_url = NoURL
    /\ checked = <<>>
    /\ search = NoSearch

\* ---- browser REPL --------------------------------------------------------
\* The WEBL clients (browser tabs) that may connect, and the commands sent.
MaxClients == 2
MaxDispatches == 2
WeblClients == 1..MaxClients
DispatchIds == 1..MaxDispatches

\* The scripts of the commands: a value, a throw, a Promise never settled.
WeblScripts == {<<"1">>, <<"throw 2">>, <<"new Promise(() => {})">>}
\* The import specifiers of a command after 'specify': an absolute path of a
\* module that can not be imported, or a fully qualified URL of one that can.
WeblImports == {<<>>, <<<<"/", "missing.js">>>>, <<<<"https://x", "/", "a.js">>>>}

\* make_browser_repl: no client has been found and nothing has been sent.
WeblInit ==
    /\ clients = <<>>
    /\ padawans = {}
    /\ lost = {}
    /\ requested = {}
    /\ eval_callbacks = {}
    /\ on_results = <<>>
    /\ connected_at = <<>>

\* ---- the specifier sites of a source -------------------------------------
\* The number of statements of a source, and what a statement may be: an
\* import statement, a statement that holds one dynamic specifier, an export
\* with a source, an export without one, and a statement with no specifier.
MaxSites == 3
SiteKinds == {"import", "dynamic", "export from", "export", "statement"}
SiteSources == UNION {[1..n -> SiteKinds] : n \in 1..MaxSites}

NoSiteCommand == [imports |-> <<>>, dynamics |-> <<>>, reads |-> <<>>]

\* Nothing has been served or sent.
SitesInit ==
    /\ site_source = <<>>
    /\ site_module = <<>>
    /\ site_command = NoSiteCommand

\* ---- webl.js: the messages of the padawans -------------------------------
\* The values Math.random() may give, the messages handled, and the
\* evaluations begun.
MaxSecret == 2
MaxMessages == 2
MaxEvalCount == 2
Secrets == 1..MaxSecret
NoSecret == 0
PadawanNames == {"p", "q"}
MessageNames == {"ready", "evaluation", "log", "exception", "other"}

\* event.data: something that is not an object, or an object with a secret
\* (or none), a name, and the padawan or evaluation it is about.
NotAnObject ==
    [object |-> FALSE, secret |-> NoSecret, name |-> "other",
     padawan |-> "p", eval_id |-> 0]
MessageData ==
    {NotAnObject}
    \cup [object : {TRUE}, secret : Secrets \cup {NoSecret},
          name : MessageNames, padawan : PadawanNames,
          eval_id : 0..(MaxEvalCount - 1)]

\* make_webl: a secret is drawn, and the tables are empty.
MessageInit ==
    /\ secret \in Secrets
    /\ webl_padawans = {}
    /\ ready_callbacks = {}
    /\ eval_ids = {}
    /\ eval_count = 0
    /\ log_callbacks = {}
    /\ invoked = <<>>
    /\ received = 0
    /\ last_message = NotAnObject

(***************************************************************************)
(* repl.js: hash(locator) over a dependency graph.  The modules are        *)
(* numbered; a graph gives each module the set of modules its specifiers   *)
(* are located at, itself among them if it imports itself.                 *)
(***************************************************************************)
MaxModules == 2
ModuleIds == 1..MaxModules
Graphs == [ModuleIds -> SUBSET ModuleIds]
NoGraph == [m \in ModuleIds |-> {}]
NoRoot == 0

\* A call of hash is known by the chain of calls that led to it, from the
\* module versionize was asked about down to the module it hashes.  A chain
\* longer than the number of modules holds a module twice: it goes round a
\* cycle of the graph.  Of a chain that grows longer than MaxChain the last
\* MaxChain calls are kept, so that the calls round a cycle go on without
\* end in a finite model; what a call of hash does depends on its module
\* only.
MaxChain == MaxModules + 1

\* The calls of hash are counted, in a counter of this many values.
CallsModulus == 4

\* repl.js: nothing has been hashed.
GraphInit ==
    /\ importing_of = NoGraph
    /\ hash_root = NoRoot
    /\ hash_analyzing = {}
    /\ hash_awaiting = {}
    /\ hash_resolved = {}
    /\ hash_versionized = FALSE
    /\ hash_calls = 0

Init == CmdlInit /\ ReplInit /\ SendInit /\ PadInit /\ ScopeInit /\ PadawanInit /\ SafeInit /\ StripInit /\ ExportsInit /\ ManifestInit /\ WeblInit /\ SitesInit /\ MessageInit /\ GraphInit

\* The reads of the file that are under way and have not yet read it.
Blind(L) ==
    {id \in ReadIds : reads[L][id].st = "pending" /\ reads[L][id].val = None}

\* The file is given another content: every watch waiting on it is
\* triggered.  The reads
\* in 'raced' had read the file already, and not yet begun their watch.
Edit(L, v, raced) ==
    /\ edits + faults < MaxEvents
    /\ raced \subseteq Blind(L)
    /\ v # disk[L]
    /\ disk' = [disk EXCEPT ![L] = v]
    /\ edits' = edits + 1
    /\ reads' = [reads EXCEPT ![L] = [id \in ReadIds |->
                  IF id \in raced THEN [reads[L][id] EXCEPT !.val = disk[L]]
                  ELSE reads[L][id]]]
    /\ armed' = [armed EXCEPT ![L] = 0]
    /\ triggered' = [triggered EXCEPT ![L] = @ + armed[L]]
    /\ jobs' = [j \in JobIds |->
                 IF jobs[j].phase # "idle" /\ L \in Closure(jobs[j].loc)
                 THEN [jobs[j] EXCEPT !.quiet = FALSE, !.fresh = FALSE]
                 ELSE jobs[j]]
    /\ UNCHANGED <<faults, queries, reading, hashing, analyzing, locating,
                   hashes, versions, returned, issued, read_calls>>
    /\ UNCHANGED errs
    /\ UNCHANGED outside_repl

\* capabilities.read settles, and the reactions of read() run: the watch is
\* begun, the content decoded; a failure drops the locator from the caches.
\* Then the calls waiting for the source go on.
ReadSettle(L, id) ==
    /\ reads[L][id].st = "pending"
    /\ LET v == IF reads[L][id].val = None THEN disk[L] ELSE reads[L][id].val
           failed == v \in {"gone", "binary"}
           S == [Cache EXCEPT !.reads[L][id] =
                    [st |-> IF failed THEN "failed" ELSE "ok", val |-> v]]
       IN  /\ v # "gone" => armed[L] + triggered[L] < MaxWatchers
           /\ armed' = [armed EXCEPT ![L] = IF v # "gone" THEN @ + 1 ELSE @]
           /\ Install(WakeAll(
                  [cache |-> IF failed THEN invalidate(S, L) ELSE S,
                   locating |-> locating, jobs |-> jobs, stuck |-> FALSE]))
    /\ UNCHANGED <<disk, edits, faults, queries, triggered, hashes, versions>>
    /\ UNCHANGED errs
    /\ UNCHANGED outside_repl

\* A watch Promise resolves: invalidate runs.
WatchFire(L) ==
    /\ triggered[L] > 0
    /\ triggered' = [triggered EXCEPT ![L] = @ - 1]
    /\ Commit(Sweep(invalidate(Cache, L), jobs))
    /\ UNCHANGED <<disk, edits, faults, queries, locating, armed, hashes,
                   versions, jobs, returned, issued>>
    /\ UNCHANGED errs
    /\ UNCHANGED outside_repl

\* A watch Promise rejects: the error is reported and invalidate runs.
WatchFail(L) ==
    /\ faults < MaxFaults
    /\ edits + faults < MaxEvents
    /\ faults' = faults + 1
    /\ armed[L] > 0
    /\ armed' = [armed EXCEPT ![L] = @ - 1]
    /\ Commit(Sweep(invalidate(Cache, L), jobs))
    /\ UNCHANGED <<disk, edits, queries, locating, triggered, hashes,
                   versions, jobs, returned, issued>>
    /\ errs' = [errs EXCEPT ![L] = @ + 1]
    /\ UNCHANGED outside_repl

\* The slot a new versionize call takes.
FreeJobs == {j \in JobIds : jobs[j].phase = "idle"}
NextJob == CHOOSE j \in FreeJobs : \A k \in FreeJobs : j <= k

\* A hash that leaves the imports out.
HashFromSourceOnly(rs, job, i) ==
    digest(<<digest(<<rs[Chain(job.loc)[i]][job.hs[i]].val>>)>>)

RECURSIVE HashFrom(_, _, _)
\* The hash of the i-th locator of the walk: the digest of the hash of its
\* source and of the hashes of its imports.
HashFrom(rs, job, i) ==
    IF i = Len(job.hs)
    THEN digest(<<digest(<<rs[Chain(job.loc)[i]][job.hs[i]].val>>)>>)
    ELSE digest(<<digest(<<rs[Chain(job.loc)[i]][job.hs[i]].val>>),
                  HashFrom(rs, job, i + 1)>>)

RECURSIVE DiskHash(_)
\* The hash that the files on disk have at this moment.
DiskHash(L) ==
    IF Dep[L] = None
    THEN digest(<<digest(<<disk[L]>>)>>)
    ELSE digest(<<digest(<<disk[L]>>), DiskHash(Dep[L])>>)

\* A numbering that counts modulo two, so that it comes back to 0.
NextVersionRecycled(L, h) ==
    IF versions[L] = NoVersion THEN 0
    ELSE IF hashes[L] # h THEN (versions[L] + 1) % 2
    ELSE versions[L]

\* The version versionize gives the locator, seeing the hash h.
NextVersion(L, h) ==
    IF versions[L] = NoVersion THEN 0
    ELSE IF hashes[L] # h THEN versions[L] + 1
    ELSE versions[L]

\* versionize(L) has been called, P being what its first reactions gave.
Started(L, P) ==
    /\ ~P.stuck
    /\ jobs' = [jobs EXCEPT ![NextJob] = P.job]
    /\ locating' = P.locating
    /\ Commit(Sweep(P.cache, jobs'))
    /\ Reject(IF P.job.phase = "idle" THEN {L} ELSE {})

\* versionize(locator) is called for a JavaScript file: hash(locator) begins.
StartVersionize(L) ==
    /\ FreeJobs # {}
    /\ queries < MaxQueries
    /\ queries' = queries + 1
    /\ Started(L, Run(Enter(Cache, locating,
                            [loc |-> L, hs |-> <<>>, an |-> <<>>,
                             phase |-> "read",
                             quiet |-> \A X \in Closure(L) : triggered[X] = 0,
                             fresh |-> \A X \in Closure(L) : ~Stale(X)],
                            L)))
    /\ UNCHANGED <<disk, edits, faults, armed, triggered, hashes, versions>>
    /\ UNCHANGED errs
    /\ UNCHANGED outside_repl

\* capabilities.locate resolves: the calls waiting for it go on.
Located(X) ==
    /\ locating[X] = "pending"
    /\ Install(WakeAll([cache |-> Cache,
                        locating |-> [locating EXCEPT ![X] = "ok"],
                        jobs |-> jobs, stuck |-> FALSE]))
    /\ UNCHANGED <<disk, edits, faults, queries, armed, triggered, hashes,
                   versions>>
    /\ UNCHANGED errs
    /\ UNCHANGED outside_repl

\* capabilities.locate rejects: the entry is deleted, and the calls waiting
\* for it are rejected.
LocateFail(X) ==
    /\ faults < MaxFaults
    /\ edits + faults < MaxEvents
    /\ faults' = faults + 1
    /\ locating[X] = "pending"
    /\ locating' = [locating EXCEPT ![X] = "none"]
    /\ jobs' = [j \in JobIds |->
                 IF jobs[j].phase = "locate" /\ Deepest(jobs[j]) = X
                 THEN NoJob ELSE jobs[j]]
    /\ Commit(Sweep(Cache, jobs'))
    /\ Reject(RejectedLocs(jobs, jobs'))
    /\ UNCHANGED <<disk, edits, queries, armed, triggered, hashes, versions>>
    /\ UNCHANGED errs
    /\ UNCHANGED outside_repl

\* hash(locator) resolves, and the reaction of versionize runs.
Complete(j) ==
    /\ jobs[j].phase = "digest"
    /\ \A i \in DOMAIN jobs[j].hs :
            reads[Chain(jobs[j].loc)[i]][jobs[j].hs[i]].st = "ok"
    /\ LET L == jobs[j].loc
           h == HashFrom(reads, jobs[j], 1)
           v == NextVersion(L, h)
       IN  /\ versions' = [versions EXCEPT ![L] = v]
           /\ hashes' = [hashes EXCEPT ![L] = h]
           /\ returned' = [returned EXCEPT ![L] = v]
           /\ issued' = [issued EXCEPT ![L] = @ \cup {v}]
    /\ jobs' = [jobs EXCEPT ![j] = NoJob]
    /\ Commit(Sweep(Cache, jobs'))
    /\ UNCHANGED <<disk, edits, faults, queries, locating, armed, triggered>>
    /\ UNCHANGED errs
    /\ UNCHANGED outside_repl

ReplNext ==
    \/ \E L \in Locs : \E v \in Written[L], raced \in SUBSET Blind(L) :
            Edit(L, v, raced)
    \/ \E L \in Locs, id \in ReadIds : ReadSettle(L, id)
    \/ \E L \in Locs : WatchFire(L)
    \/ \E L \in Locs : WatchFail(L)
    \/ \E L \in Roots : StartVersionize(L)
    \/ \E L \in Locs : Located(L)
    \/ \E L \in Locs : LocateFail(L)
    \/ \E j \in JobIds : Complete(j)

SpecCmdl == Init /\ [][CmdlNext]_vars
SpecRepl == Init /\ [][ReplNext]_vars

(***************************************************************************)
(* repl.js, send(message, on_result).                                      *)
(***************************************************************************)

\* A Promise that resolves with the first specifier.
ResolvedAny(q) == \E s \in q.specs : q.stage[s] = "done"

\* Promise.all over the specifiers of the source has resolved.
Resolved(q) == \A s \in q.specs : q.stage[s] = "done"

\* on_eval(on_result, produce_script, ...): cmdl.eval writes the command to
\* the padawan's socket, or throws when there is no socket.
on_eval(q, connected) ==
    IF connected
    THEN [q EXCEPT !.phase = "evaluating", !.emitted = TRUE]
    ELSE [q EXCEPT !.phase = "rejected", !.error = TypeError]

\* Promise.all rejects with the first rejection; later ones are dropped.
Rejection(q, e) ==
    IF q.phase = "resolving"
    THEN [q EXCEPT !.phase = "rejected", !.error = e]
    ELSE q

\* send(message, on_result) is called: capabilities.command is applied.
Send(r, specs) ==
    /\ sends[r].phase = "idle"
    /\ sends' = [sends EXCEPT ![r] = [NoSend EXCEPT !.phase = "command",
                                                     !.specs = specs]]
    /\ UNCHANGED outside_send

\* capabilities.command has resolved: the source is parsed and every
\* specifier is handed to locate.
Prepare(r, parses, connected) ==
    /\ sends[r].phase = "command"
    /\ LET q == sends[r]
           p == [q EXCEPT !.phase = "resolving",
                          !.stage = [s \in Specifiers |->
                                IF s \in q.specs THEN "locate" ELSE "none"]]
       IN  sends' = [sends EXCEPT ![r] =
                IF ~parses
                THEN [q EXCEPT !.phase = "rejected", !.error = SyntaxError]
                ELSE IF Resolved(p) THEN on_eval(p, connected) ELSE p]
    /\ UNCHANGED outside_send

\* locate(specifier, message.locator) resolves: versionize is called.
SendLocated(r, s) ==
    /\ sends[r].stage[s] = "locate"
    /\ sends' = [sends EXCEPT ![r].stage[s] = "versionize"]
    /\ UNCHANGED outside_send

\* locate rejects.
SendLocateFail(r, s) ==
    /\ sends[r].stage[s] = "locate"
    /\ sends' = [sends EXCEPT ![r] =
            Rejection([sends[r] EXCEPT !.stage[s] = "failed"],
                      ResolveError(s, Parent))]
    /\ UNCHANGED outside_send

\* versionize resolves: specify is applied, and when this was the last
\* specifier on_eval is called.
SendVersionized(r, s, connected) ==
    /\ sends[r].stage[s] = "versionize"
    /\ LET p == [sends[r] EXCEPT !.stage[s] = "done"]
       IN  sends' = [sends EXCEPT ![r] =
                IF p.phase = "resolving" /\ Resolved(p)
                THEN on_eval(p, connected) ELSE p]
    /\ UNCHANGED outside_send

\* versionize rejects: a file of the import graph cannot be read or parsed.
SendVersionizeFail(r, s) ==
    /\ sends[r].stage[s] = "versionize"
    /\ sends' = [sends EXCEPT ![r] =
            Rejection([sends[r] EXCEPT !.stage[s] = "failed"],
                      ReadError(LocatorOf[s]))]
    /\ UNCHANGED outside_send

\* The padawan's report arrives: on_result is called and send resolves.
SendReport(r) ==
    /\ sends[r].phase = "evaluating"
    /\ sends' = [sends EXCEPT ![r].phase = "resolved", ![r].results = @ + 1]
    /\ UNCHANGED outside_send

SendNext ==
    \/ \E r \in SendIds, specs \in SUBSET Specifiers : Send(r, specs)
    \/ \E r \in SendIds, parses, connected \in BOOLEAN :
            Prepare(r, parses, connected)
    \/ \E r \in SendIds, s \in Specifiers : SendLocated(r, s)
    \/ \E r \in SendIds, s \in Specifiers : SendLocateFail(r, s)
    \/ \E r \in SendIds, s \in Specifiers, connected \in BOOLEAN :
            SendVersionized(r, s, connected)
    \/ \E r \in SendIds, s \in Specifiers : SendVersionizeFail(r, s)
    \/ \E r \in SendIds : SendReport(r)

SpecSend == Init /\ [][SendNext]_vars

(***************************************************************************)
(* node_padawan.js, deno_padawan.js: the padawan's handling of commands.   *)
(***************************************************************************)

\* The place in the socket's stream of the last command written.
Newest(wire) == Len(wire)

\* The place in the socket's stream of the command read next: the bytes of
\* a TCP connection arrive in the order written.
Oldest(wire) == 1

Without(wire, i) == [k \in 1..(Len(wire) - 1) |->
                        IF k < i THEN wire[k] ELSE wire[k + 1]]

\* The CMDL writes a command to the socket.  Commands are numbered in the
\* order they are written.
WriteCommand(c, imports) ==
    /\ pad_imports[c] = Unwritten
    /\ \A d \in CommandIds : d < c => pad_imports[d] # Unwritten
    /\ pad_imports' = [pad_imports EXCEPT ![c] = imports]
    /\ pad_wire' = Append(pad_wire, c)
    /\ UNCHANGED <<pad_received, pad_loading, pad_evaluated>>
    /\ UNCHANGED outside_pad

\* The "line" listener, or consume(): a complete command is taken from the
\* stream and evaluate() is called, which imports every specifier.  With
\* nothing to import, Promise.all resolves at once and the script is
\* evaluated before anything else is read.
evaluate ==
    /\ pad_wire # <<>>
    /\ LET c == pad_wire[Oldest(pad_wire)]
       IN  /\ pad_wire' = Without(pad_wire, Oldest(pad_wire))
           /\ pad_received' = Append(pad_received, c)
           /\ pad_loading' = [pad_loading EXCEPT ![c] = pad_imports[c]]
           /\ pad_evaluated' = IF pad_imports[c] = {}
                               THEN Append(pad_evaluated, c)
                               ELSE pad_evaluated
    /\ UNCHANGED pad_imports
    /\ UNCHANGED outside_pad

\* import(specifier) resolves for a command; when it was the last one the
\* command waited for, its script is evaluated.
Imported(c, mod) ==
    /\ mod \in pad_loading[c]
    /\ pad_loading' = [pad_loading EXCEPT ![c] = @ \ {mod}]
    /\ pad_evaluated' = IF pad_loading[c] = {mod}
                        THEN Append(pad_evaluated, c)
                        ELSE pad_evaluated
    /\ UNCHANGED <<pad_imports, pad_wire, pad_received>>
    /\ UNCHANGED outside_pad

PadNext ==
    \/ \E c \in CommandIds, imports \in SUBSET Modules :
            WriteCommand(c, imports)
    \/ evaluate
    \/ \E c \in CommandIds, mod \in Modules : Imported(c, mod)

SpecPad == Init /\ [][PadNext]_vars


---------------------------------------------------------------------------
(***************************************************************************)
(* Properties of the padawan transport.                                    *)
(***************************************************************************)

\* The step in which the master handles the "exit" event of process p.
ExitStep(p) == Live(p) /\ procs'[p].st = "exited"

\* destroy() has been called: the server was started and listens no more.
DestroyRequested == tcp_port # Undefined /\ ~tcp_listening /\ ~listen_pending

\* A padawan is being spawned in this step, for the port of the TCP server.
SpawnsPadawan ==
    \E n \in ProcIds :
        /\ procs[n].st = "none"
        /\ procs'[n].st = "requested"
        /\ procs'[n].port = tcp_port
        /\ waiters' = waiters + 1

\* C4: when the padawan process exits, every evaluation still waiting for its
\* report is resolved with {exception: "CMDL died."}, the table of report
\* callbacks is empty right after, and an evaluation that already has its
\* report keeps it.
C4_ExitSettlesPending ==
    [][\A p \in ProcIds :
        ExitStep(p) =>
            /\ report_callbacks' = {}
            /\ \A e \in EvalIds :
                /\ evals[e].st = "pending" =>
                    /\ evals'[e].st = "resolved"
                    /\ evals'[e].report = DiedReport
                    /\ results'[e] = HostResult(DiedReport, evals[e].msg)
                /\ evals[e].st = "resolved" =>
                    /\ evals'[e] = evals[e]
                    /\ results'[e] = results[e]]_vars

\* C4's case: a padawan has exited with one evaluation already reported and
\* another one still waiting, which got the synthetic report.
C4_Witness ==
    /\ \E p \in ProcIds : procs[p].st = "exited"
    /\ report_callbacks = {}
    /\ \E e, d \in EvalIds :
        /\ evals[e].st = "resolved" /\ evals[e].report = DiedReport
        /\ evals[d].st = "resolved" /\ evals[d].report # DiedReport

\* C5, as claimed: the Promise of an evaluation submitted after create() has
\* resolved never rejects.
C5_EvalNeverRejects ==
    \A e \in EvalIds : evals[e].st # "rejected"

C7_ReportsCorrelated ==
    \A e \in EvalIds :
        /\ evals[e].st = "resolved" =>
            /\ evals[e].report \in {Evaluate(evals[e].script), DiedReport}
            /\ results[e] = HostResult(evals[e].report, evals[e].msg)
            /\ results[e].id = evals[e].msg
            /\ (results[e].evaluation = Undefined)
                    # (results[e].exception = Undefined)
        /\ evals[e].st # "resolved" => results[e] = NoReport

\* C7's case: two commands with different scripts are outstanding and the
\* report of the later one arrives first.
C7_Witness ==
    /\ evals[1].st = "pending"
    /\ evals[2].st = "resolved"
    /\ evals[1].script # evals[2].script
    /\ evals[2].report = Evaluate(evals[2].script)
    /\ results[2].id = evals[2].msg

\* C14, as claimed: whenever a Promise returned by create() resolves, that
\* of the first call or of a later one, the padawan has connected and the
\* 'socket' variable is set.
C14_CreatedMeansConnected ==
    [][(later_creates' > later_creates \/ (created' /\ ~created))
        => socket' # NoProcess]_vars

\* C15, as claimed: once a Promise returned by destroy() has resolved, no
\* padawan process is alive or about to be spawned.
C15_DestroyedMeansDead ==
    destroy_resolved > 0 =>
        \A p \in ProcIds : ~Live(p) /\ procs[p].st # "requested"

(***************************************************************************)
(* Properties of the REPL's caches and versions.                           *)
(***************************************************************************)

InFlight(j) == jobs[j].phase # "idle"

\* The versionize call j resolves in this step.
Completes(j) == jobs[j].phase = "digest" /\ jobs'[j].phase = "idle"

\* The hash the versionize call j has computed.
Computed(j) == HashFrom(reads, jobs[j], 1)

\* C1: the version in the locator versionize(L) returns starts at 0, is never
\* less than the one returned before, and at each completed query either
\* stays (the computed hash is the recorded one) or grows by exactly one (it
\* is not); then it is higher than every version issued before, also when
\* the computed hash is one that was recorded earlier.  Versions change at no
\* other moment.
C1_VersionSteps ==
    [][\A L \in Locs :
        LET done == {j \in JobIds : Completes(j) /\ jobs[j].loc = L}
        IN  IF done = {}
            THEN versions'[L] = versions[L] /\ hashes'[L] = hashes[L]
            ELSE \E j \in done :
                    /\ returned'[L] = versions'[L]
                    /\ hashes'[L] = Computed(j)
                    /\ versions[L] = NoVersion => versions'[L] = 0
                    /\ versions[L] # NoVersion =>
                        /\ versions'[L] >= versions[L]
                        /\ Computed(j) = hashes[L] =>
                                versions'[L] = versions[L]
                        /\ Computed(j) # hashes[L] =>
                            /\ versions'[L] = versions[L] + 1
                            /\ \A n \in issued[L] : n < versions'[L]]_vars

\* C1's case: "b" was queried, given a new content, queried, given its first
\* content back and queried again: the third query returned version 2.
C1_Witness ==
    /\ versions["b"] = 2
    /\ returned["b"] = 2
    /\ issued["b"] = {0, 1, 2}
    /\ disk = [L \in Locs |-> "x"]
    /\ hashes["b"] = DiskHash("b")

\* C2, as claimed, for the timing it fails for: a versionize(L) call made
\* while no change notification is outstanding for L or its imports, and
\* during which no file changes, returns a higher version than the one
\* before whenever the content on disk is not the content whose hash was
\* recorded by the query before.
C2_ChangeRaisesVersion ==
    [][\A j \in JobIds :
        Completes(j) /\ jobs[j].quiet
        /\ versions[jobs[j].loc] # NoVersion
        /\ hashes[jobs[j].loc] # DiskHash(jobs[j].loc)
        => versions'[jobs[j].loc] > versions[jobs[j].loc]]_vars

RECURSIVE Leaf(_)
\* The source of the last module of the walk, as a hash has it.
Leaf(h) == IF Len(h.sha1) = 1 THEN h.sha1[1].sha1[1] ELSE Leaf(h.sha1[2])

\* C3: a versionize call for "a" or "b" that has read the content "c" has on
\* disk, as every call does that begins after the notification of the change
\* of "c" was delivered, returns a version higher by one when that content is
\* not the one in the hash recorded before, whether or not the sources of
\* "a" and "b" were read again; and a call that begins when no cache entry of
\* the locator or its imports holds content that is not on disk, and during
\* which no file changes, records the hash of what is on disk.
C3_DependencyPropagates ==
    [][\A j \in JobIds :
        Completes(j) =>
            /\ jobs[j].fresh => hashes'[jobs[j].loc] = DiskHash(jobs[j].loc)
            /\ (/\ versions[jobs[j].loc] # NoVersion
                /\ Leaf(Computed(j)) = disk["c"]
                /\ Leaf(hashes[jobs[j].loc]) # disk["c"])
               => versions'[jobs[j].loc] = versions[jobs[j].loc] + 1]_vars

\* C3's case: "c" has changed, "a" and "b" have not, their sources have been
\* read once and are still cached, and versionize("a") has returned 1 after 0.
C3_Witness ==
    /\ disk = [a |-> "x", b |-> "x", c |-> "y"]
    /\ edits = 1 /\ faults = 0
    /\ versions["a"] = 1 /\ returned["a"] = 1
    /\ issued["a"] = {0, 1}
    /\ hashes["a"] = DiskHash("a")
    /\ reading["a"] # NoRead /\ reading["b"] # NoRead
    /\ armed["a"] = 1 /\ armed["b"] = 1

\* C8, as claimed for hash(L): two hash computations for the same locator
\* that are in flight together are one computation, with one result.
C8_HashShared ==
    \A j, k \in JobIds :
        /\ jobs[j].phase = "digest" /\ jobs[k].phase = "digest"
        /\ jobs[j].loc = jobs[k].loc
        => Computed(j) = Computed(k)

\* C8, amended: while a locator has an entry in the 'reading' cache, every
\* read(L), made directly or by analyze(L) or hash_source(L), returns that
\* Promise: the entry is only ever replaced after it was deleted, the
\* entries of 'hashing' and 'analyzing' derive from it, each call of hash()
\* waits for it, and capabilities.read has been called once since the last
\* invalidation.
C8_ReadsShared ==
    [][\A L \in Locs :
        /\ read_calls'[L] <= 1
        /\ reading[L] # NoRead /\ reading'[L] # NoRead
           => reading'[L] = reading[L]
        /\ hashing'[L] \in {NoRead, reading'[L]}
        /\ analyzing'[L] \in {NoRead, reading'[L]}
        /\ \A j \in JobIds : \A i \in DOMAIN jobs'[j].hs :
            /\ Chain(jobs'[j].loc)[i] = L
            /\ ~InFlight(j) \/ i > Len(jobs[j].hs)
            /\ reading[L] # NoRead
            => jobs'[j].hs[i] = reading[L] /\ jobs'[j].an[i] = reading[L]]_vars

\* C8's case: two versionize calls for "a" are in flight and wait for the
\* same Promise of read("a"), after a single call of capabilities.read.
C8_Witness ==
    /\ jobs[1].loc = "a" /\ jobs[2].loc = "a"
    /\ jobs[1].phase = "read" /\ jobs[2].phase = "read"
    /\ jobs[1].hs = jobs[2].hs
    /\ jobs[1].an = jobs[1].hs
    /\ reads["a"][jobs[1].hs[1]].st = "pending"
    /\ read_calls["a"] = 1

\* C9, as claimed: when the file behind a cached source has changed since it
\* was read, the notification that drops the entry is on its way.
C9_ChangeDropsEntry ==
    \A L \in Locs :
        /\ reading[L] # NoRead
        /\ reads[L][reading[L]].st = "ok"
        /\ reads[L][reading[L]].val # disk[L]
        => triggered[L] > 0

\* The analysis of L that is cached is a rejection: its source does not parse.
AnalysisRejected(L) ==
    analyzing[L] # NoRead /\ Unparsed(reads[L][analyzing[L]])

\* capabilities.locate rejects in this step, for the specifier of X.
LocateRejects(X) == locating[X] = "pending" /\ faults' = faults + 1
                    /\ locating'[X] # "pending"

\* Every file holds a module, and every cache entry the content of its file.
Sound == \A L \in Locs : disk[L] \in Sources /\ ~Stale(L)

\* C10, as claimed: a retry made after the cause was fixed succeeds.  When
\* the analysis cached for a locator is a rejection and its file holds a
\* module again, the notification that evicts the rejection is on its way.
C10_RetrySucceeds ==
    \A L \in Locs :
        AnalysisRejected(L) /\ disk[L] \in Sources => triggered[L] > 0

\* C10, what the caches do guarantee: a read that has failed is in none of the three caches, and
\* a locate that has failed is not in 'locating'; an analysis rejected
\* because the source does not parse stays in 'analyzing', and is served to
\* later calls, until the entries of the locator are invalidated; a
\* versionize call made when every file holds a module and no cache entry
\* holds other content than its file's is not rejected, unless
\* capabilities.locate fails or a file changes meanwhile.
C10_FailuresEvicted ==
    [][/\ \A L \in Locs :
            /\ \A id \in {reading'[L], hashing'[L], analyzing'[L]} \ {NoRead} :
                    reads'[L][id].st # "failed"
            /\ LocateRejects(L) => locating'[L] = "none"
            /\ (AnalysisRejected(L) /\ analyzing'[L] # analyzing[L])
               => /\ reading'[L] = NoRead
                  /\ hashing'[L] = NoRead
                  /\ analyzing'[L] = NoRead
       /\ (queries' = queries + 1 /\ Sound)
          => \E j \in JobIds : ~InFlight(j) /\ jobs'[j].fresh
       /\ \A j \in JobIds :
            (/\ InFlight(j) /\ jobs[j].fresh
             /\ \A X \in Closure(jobs[j].loc) : disk[X] \in Sources
             /\ jobs'[j].phase = "idle")
            => Completes(j) \/ \E X \in Locs : LocateRejects(X)]_vars

\* C10's guarantee at work: "c" stopped being a module and was repaired; versionize("b")
\* was rejected, and later resolved with version 0.
C10_Witness ==
    /\ edits = 2 /\ faults = 0
    /\ disk["c"] \in Sources
    /\ issued["b"] = {Rejected, 0}
    /\ returned["b"] = 0
    /\ versions["b"] = 0

\* A watch Promise of L rejects in this step.
WatchRejects(L) == faults' = faults + 1 /\ armed'[L] = armed[L] - 1

\* C11, as claimed: once the watch of a locator has failed, its source is
\* never held in the cache again.
C11_NeverCached ==
    \A L \in Locs :
        errs[L] > 0 =>
            ~(reading[L] # NoRead /\ reads[L][reading[L]].st = "ok")

\* C11, amended: when a watch Promise of L rejects, the failure is reported
\* through capabilities.err, which is called for nothing else, and the
\* entries of L leave the three caches, so that the next read(L) calls
\* capabilities.read again; that read is cached like any other.
C11_WatchFailureEvicts ==
    [][\A L \in Locs :
        /\ WatchRejects(L) =>
            /\ errs'[L] = errs[L] + 1
            /\ reading'[L] = NoRead
            /\ hashing'[L] = NoRead
            /\ analyzing'[L] = NoRead
            /\ read_calls'[L] = 0
        /\ errs'[L] # errs[L] => WatchRejects(L)
        /\ (reading[L] = NoRead /\ reading'[L] # NoRead) =>
            /\ read_calls'[L] = 1
            /\ reads'[L][reading'[L]].st = "pending"]_vars

\* C11's case: the source of "b" was read and versionize("b") returned; the
\* watch of "b" failed; a later versionize("b") has called capabilities.read
\* again.
C11_Witness ==
    /\ errs["b"] = 1
    /\ versions["b"] = 0
    /\ reading["b"] # NoRead
    /\ reads["b"][reading["b"]].st = "pending"
    /\ read_calls["b"] = 1

(***************************************************************************)
(* Properties of send.                                                     *)
(***************************************************************************)

\* C12, as claimed: when a step fails for a specifier, the send Promise
\* rejects with an error that names the specifier and the parent locator.
C12_ErrorNamesSpecifier ==
    \A r \in SendIds :
        (\E s \in Specifiers : sends[r].stage[s] = "failed") =>
            /\ sends[r].phase = "rejected"
            /\ sends[r].error.specifier \in sends[r].specs
            /\ sends[r].error.parent = Parent

\* C12, amended: the command is emitted only when every specifier of the
\* source has been located, versionized and specified; when a step fails for
\* a specifier no command is emitted, on_result is not called, and send
\* rejects with the exception of a step that failed, unchanged: that of
\* node_resolve names the specifier and the parent locator, that of
\* versionize names neither, only the file.
C12_CommandAfterResolution ==
    \A r \in SendIds :
        LET q == sends[r]
            failed == {s \in Specifiers : q.stage[s] = "failed"}
        IN  /\ q.emitted => \A s \in q.specs : q.stage[s] = "done"
            /\ q.results > 0 => q.emitted
            /\ failed # {} =>
                /\ ~q.emitted /\ q.results = 0
                /\ q.phase = "rejected"
                /\ q.error \in {ResolveError(s, Parent) : s \in failed}
                               \cup {ReadError(LocatorOf[s]) : s \in failed}

\* C12's case: of the two specifiers of a source one was versionized, and
\* the other could not be located: send has rejected, naming it, and no
\* command was emitted.
C12_Witness ==
    /\ sends[1].specs = Specifiers
    /\ sends[1].stage["./dep.js"] = "done"
    /\ sends[1].stage["pkg"] = "failed"
    /\ sends[1].phase = "rejected"
    /\ sends[1].error = ResolveError("pkg", Parent)
    /\ ~sends[1].emitted

(***************************************************************************)
(* Properties of the padawan.                                              *)
(***************************************************************************)

\* C13, as claimed: the scripts are evaluated in the order their commands
\* were written to the socket.
C13_EvaluatedInOrder ==
    \A i, j \in DOMAIN pad_evaluated :
        i < j => pad_evaluated[i] < pad_evaluated[j]

\* C13, amended: the padawan reads the commands in the order written and
\* calls evaluate() for each at once; each script is evaluated once, when
\* the imports of its own command have loaded, so a script is evaluated
\* after that of a command written later only if its command has imports.
C13_EvaluatedWhenLoaded ==
    /\ pad_received = [k \in 1..Len(pad_received) |-> k]
    /\ \A i, j \in DOMAIN pad_evaluated :
        /\ i < j => pad_evaluated[i] # pad_evaluated[j]
        /\ (i < j /\ pad_evaluated[i] > pad_evaluated[j])
           => pad_imports[pad_evaluated[j]] # {}
    /\ \A c \in CommandIds :
        (\E i \in DOMAIN pad_evaluated : pad_evaluated[i] = c)
        <=> (/\ \E k \in DOMAIN pad_received : pad_received[k] = c
             /\ pad_loading[c] = {})

\* C13's case: command 1, which imports a module, was written before
\* command 2, which imports nothing; both scripts have been evaluated, and
\* that of command 2 first.
C13_Witness ==
    /\ pad_imports[1] = {"m"}
    /\ pad_imports[2] = {}
    /\ pad_received = <<1, 2>>
    /\ pad_evaluated = <<2, 1>>

---------------------------------------------------------------------------
(***************************************************************************)
(* repl.js: the rewriting of sources.                                      *)
(***************************************************************************)

\* string.slice(start, end)
slice(string, start, end) == SubSeq(string, start + 1, end)

\* The number of lines of a text.
count_lines(string) ==
    1 + Cardinality({p \in 1..Len(string) : string[p] = LF})

\* blanks(source, range): as many line terminators as the range holds.
blanks(source, range) ==
    [i \in 1..Cardinality({p \in (range.start + 1)..range.end :
                            source[p] = LF}) |-> LF]

\* An element [range, replacement] of the 'alterations' array.
Alteration(start, end, replacement) ==
    [start |-> start, end |-> end, replacement |-> replacement]

\* compare(a, b) of alter_string is negative or zero.
NotAfter(a, b) ==
    \/ a.start < b.start
    \/ a.start = b.start /\ a.end <= b.end

\* Array.prototype.sort is stable: an alteration goes behind those that
\* compare equal to it and were in the array before it.
Sorted(alterations) ==
    LET insert(sorted, a) ==
            LET before == {i \in 1..Len(sorted) : NotAfter(sorted[i], a)}
                n == Cardinality(before)
            IN  SubSeq(sorted, 1, n) \o <<a>>
                    \o SubSeq(sorted, n + 1, Len(sorted))
        sort[k \in 0..Len(alterations)] ==
            IF k = 0 THEN <<>> ELSE insert(sort[k - 1], alterations[k])
    IN  sort[Len(alterations)]

\* alter_string(string, alterations)
alter_string(string, alterations) ==
    LET sorted == Sorted(alterations)
        end[k \in 0..Len(sorted)] == IF k = 0 THEN 0 ELSE sorted[k].end
        chunks[k \in 0..Len(sorted)] ==
            IF k = 0 THEN <<>>
            ELSE chunks[k - 1]
                    \o slice(string, end[k - 1], sorted[k].start)
                    \o sorted[k].replacement
    IN  chunks[Len(sorted)] \o slice(string, end[Len(sorted)], Len(string))

\* What each statement of a tree gives, one after the other.
Gather(F(_, _), tree) ==
    LET gather[k \in 1..(Len(tree) + 1)] ==
            IF k > Len(tree) THEN <<>>
            ELSE F(tree[k], StartOf(tree, k)) \o gather[k + 1]
    IN  gather[1]

\* analyze_module: the statements that 'imports', 'exports' and 'dynamics'
\* hold.
IsImport(node) == node.type = "ImportDeclaration"
IsExport(node) ==
    node.type \in {"ExportDefaultDeclaration", "ExportNamedDeclaration",
                   "ExportAllDeclaration"}
IsDynamic(node) == node.dynamic # <<>>

\* The places of a statement that the walk of analyze_top goes through.
Walked(node) ==
    CASE node.type = "FunctionDeclaration" -> {}
      [] node.type = "ForOfStatement" -> {"body"}
      [] OTHER -> {"expression", "init", "test", "left", "right", "body"}

\* analyze_top: 'wait', and the statements that 'values' holds.
analyze_top(tree) ==
    [wait |-> \E k \in 1..Len(tree) :
                    tree[k].awaits \cap Walked(tree[k]) # {},
     values |-> {k \in 1..Len(tree) : tree[k].type = "ExpressionStatement"}]

\* handlers.VariableDeclaration
VariableDeclaration(node, at) ==
    <<Alteration(at + node.declaration_start, at + node.declarations_start,
                 <<>>)>>
    \o (IF node.init_end # -1
        THEN IF node.id.type = "ObjectPattern"
             THEN <<Alteration(at + node.id.start, at + node.id.start,
                               <<"(">>),
                    Alteration(at + node.init_end, at + node.init_end,
                               <<")">>)>>
             ELSE <<>>
        ELSE <<Alteration(at + node.id.end, at + node.id.end,
                          <<"=", "undefined">>)>>)

\* handlers.FunctionDeclaration
FunctionDeclaration(node, at) ==
    <<Alteration(at + node.id.start, at + node.id.end,
                 <<"$" \o node.id.keys[1]>>),
      Alteration(0, 0,
                 <<node.id.keys[1], "=", "$" \o node.id.keys[1], ";">>)>>

\* handlers.ClassDeclaration
ClassDeclaration(node, at) ==
    <<Alteration(at, at, <<node.id.keys[1], "=">>),
      Alteration(at + Len(node.text), at + Len(node.text), <<";">>)>>

\* handlers.ExportNamedDeclaration, for a node that has a declaration.
ExportNamedDeclaration(node, at) ==
    <<Alteration(at, at + node.declaration_start, <<>>)>>
    \o (IF node.declaration = "VariableDeclaration"
        THEN VariableDeclaration(node, at)
        ELSE <<>>)

\* handlers[node.type](node): the alterations that a statement's handler
\* pushes.
Handled(node, at) ==
    CASE node.type = "VariableDeclaration" -> VariableDeclaration(node, at)
      [] node.type = "FunctionDeclaration" -> FunctionDeclaration(node, at)
      [] node.type = "ClassDeclaration" -> ClassDeclaration(node, at)
      [] node.type = "ExportNamedDeclaration" ->
            ExportNamedDeclaration(node, at)
      [] OTHER -> <<>>

\* The names that a statement's handler pushes to 'variables': of an object
\* pattern, the keys of its properties.
Declared(node, at) ==
    IF \/ node.type \in {"VariableDeclaration", "FunctionDeclaration",
                         "ClassDeclaration"}
       \/ node.type = "ExportNamedDeclaration"
            /\ node.declaration = "VariableDeclaration"
    THEN node.id.keys
    ELSE <<>>

\* make_identifiers_object_literal: the members of the object, in order.
\* A variable is undefined, an importation has the value of the module's
\* export.
make_identifiers_object_literal(tree) ==
    LET imported(node, at) == IF IsImport(node) THEN node.binds ELSE <<>>
        variables == Gather(Declared, tree)
    IN  [k \in 1..Len(variables) |-> Bind(variables[k], undefined)]
            \o Gather(imported, tree)

\* The two texts that wrap a payload that waits.
AsyncOpen == "(async function () {let $await;"
AsyncClose == "return $await;}());"

\* handlers.ExportNamedDeclaration reads node.declaration.start: of a node
\* whose declaration is null, that throws a TypeError.
Throws(tree) ==
    \E k \in 1..Len(tree) :
        tree[k].type = "ExportNamedDeclaration"
            /\ tree[k].declaration = "null"

\* The alterations that replize makes, in the order it makes them.
Alterations(tree) ==
    LET source == TextOf(tree)
        top_analysis == analyze_top(tree)
        erase(node, at) ==
            <<Alteration(at, at + Len(node.text),
                         blanks(source, [start |-> at,
                                         end |-> at + Len(node.text)]))>>
        imports(node, at) == IF IsImport(node) THEN erase(node, at) ELSE <<>>
        exports(node, at) ==
            CASE node.type = "ExportDefaultDeclaration" ->
                    <<Alteration(at, at + node.declaration_start,
                                 <<"$default", "=">>)>>
              [] node.type = "ExportAllDeclaration" -> erase(node, at)
              [] OTHER -> <<>>
        dynamics(node, at) ==
            IF IsDynamic(node)
            THEN <<Alteration(
                        at + node.dynamic[1], at + node.dynamic[2],
                        <<ResolvedSpecifier>>
                        \o blanks(source, [start |-> at + node.dynamic[1],
                                           end |-> at + node.dynamic[2]]))>>
            ELSE <<>>
        values(node, at) ==
            IF node.type = "ExpressionStatement"
            THEN <<Alteration(at, at, <<"$await", "=">>)>>
            ELSE <<>>
        made == Gather(imports, tree) \o Gather(exports, tree)
                    \o Gather(dynamics, tree) \o Gather(Handled, tree)
    IN  IF top_analysis.wait
        THEN <<Alteration(0, 0, <<AsyncOpen>>)>> \o made
                \o <<Alteration(Len(source), Len(source),
                                <<LF, AsyncClose>>)>>
                \o Gather(values, tree)
        ELSE made

\* replize(source, tree, module_analysis, top_analysis, dynamic_specifiers,
\* scope): the script, as the three things that fill script_template, or
\* the exception thrown.
replize(tree, scope) ==
    IF Throws(tree)
    THEN [threw |-> "TypeError", scope |-> scope, tree |-> tree]
    ELSE [threw |-> "nothing", scope |-> scope, tree |-> tree,
          identifiers |-> make_identifiers_object_literal(tree),
          payload |-> alter_string(TextOf(tree), Alterations(tree))]

\* module(locator): the text of a module as the source server sends it, its
\* specifiers replaced by resolved ones.
module(tree) ==
    LET source == TextOf(tree)
        imports(node, at) ==
            IF IsImport(node)
            THEN <<Alteration(at + node.source[1], at + node.source[2],
                              <<ResolvedSpecifier>>)>>
            ELSE <<>>
        dynamics(node, at) ==
            IF IsDynamic(node)
            THEN <<Alteration(
                        at + node.dynamic[1], at + node.dynamic[2],
                        <<ResolvedSpecifier>>
                        \o blanks(source, [start |-> at + node.dynamic[1],
                                           end |-> at + node.dynamic[2]]))>>
            ELSE <<>>
        exports(node, at) ==
            IF IsExport(node) /\ node.source # <<>>
            THEN <<Alteration(at + node.source[1], at + node.source[2],
                              <<ResolvedSpecifier>>)>>
            ELSE <<>>
    IN  alter_string(source,
                     Gather(imports, tree) \o Gather(dynamics, tree)
                        \o Gather(exports, tree))

---------------------------------------------------------------------------
(***************************************************************************)
(* The evaluation of a script by a padawan: script_template, and what the  *)
(* JavaScript of the payload does to the scope it is evaluated in.         *)
(***************************************************************************)

\* The names a payload can refer to: the slots of a scope, and the names
\* that replize makes up.
Names == Slots \cup {"$await"} \cup {"$" \o i : i \in Identifiers}

\* A lexical binding that is not yet initialised.
TDZ == "uninitialised"

\* The properties of the object literal {a: 1, b: 2}.
Property(object, key) ==
    CASE key = "a" -> "1"
      [] key = "b" -> "2"
      [] OTHER -> undefined

\* What an operator makes of a value, the value being computed once.
Then(value, Op(_)) == CHOOSE result \in {Op(v) : v \in {value}} : TRUE

\* The first place at or after i where the token is, 0 when there is none.
Find(tokens, i, token) ==
    LET at == {j \in i..Len(tokens) : tokens[j] = token}
    IN  IF at = {} THEN 0 ELSE CHOOSE j \in at : \A k \in at : j <= k

\* PutValue: an assignment of env.value to a name, in strict mode and
\* inside 'with ($scope)'.  The bindings of the payload itself come first,
\* then the properties of the scope object.
Put(name, env) ==
    IF env.threw # "nothing" THEN env
    ELSE IF name \notin Names THEN [env EXCEPT !.threw = "SyntaxError"]
    ELSE IF env.locals[name] = TDZ
    THEN [env EXCEPT !.threw = "ReferenceError"]
    ELSE IF env.locals[name] # Absent
    THEN [env EXCEPT !.locals[name] = env.value]
    ELSE IF name \in Slots /\ env.scope[name] # Absent
    THEN [env EXCEPT !.scope[name] = env.value]
    ELSE [env EXCEPT !.threw = "ReferenceError"]

\* GetValue: a literal is its own value, a name is looked up.
Get(token, env) ==
    IF token \notin Names THEN [env EXCEPT !.value = token]
    ELSE IF env.locals[token] = TDZ
    THEN [env EXCEPT !.threw = "ReferenceError"]
    ELSE IF env.locals[token] # Absent
    THEN [env EXCEPT !.value = env.locals[token]]
    ELSE IF token \in Slots /\ env.scope[token] # Absent
    THEN [env EXCEPT !.value = env.scope[token]]
    ELSE [env EXCEPT !.threw = "ReferenceError"]

\* An expression: the comma binds weakest, then the assignment.
RECURSIVE Expression(_, _)
Expression(tokens, env) ==
    IF env.threw # "nothing" THEN env
    ELSE IF tokens = <<>> THEN [env EXCEPT !.threw = "SyntaxError"]
    ELSE IF Find(tokens, 1, ",") > 0
    THEN Then(Expression(SubSeq(tokens, 1, Find(tokens, 1, ",") - 1), env),
              LAMBDA left :
                Expression(SubSeq(tokens, Find(tokens, 1, ",") + 1,
                                  Len(tokens)),
                           left))
    ELSE IF Len(tokens) >= 3 /\ tokens[2] = "="
    THEN Then(Expression(SubSeq(tokens, 3, Len(tokens)), env),
              LAMBDA right : Put(tokens[1], right))
    ELSE IF tokens[1] = "await" THEN Expression(Tail(tokens), env)
    ELSE IF tokens[1] = "class" /\ Len(tokens) = 4
    THEN [env EXCEPT !.value = "class " \o tokens[2]]
    ELSE IF Len(tokens) = 1 THEN Get(tokens[1], env)
    ELSE [env EXCEPT !.threw = "SyntaxError"]

\* The properties of an object pattern, from the token at p to the brace
\* that closes it: 'a' is assigned to a, and 'b: c' to c.
RECURSIVE Properties(_, _, _)
Properties(tokens, p, close) ==
    IF p >= close THEN <<>>
    ELSE IF tokens[p + 1] = ":"
    THEN <<[key |-> tokens[p], target |-> tokens[p + 2]]>>
            \o Properties(tokens, p + 4, close)
    ELSE <<[key |-> tokens[p], target |-> tokens[p]]>>
            \o Properties(tokens, p + 2, close)

\* The properties of a pattern are assigned from the object, from left to
\* right.
RECURSIVE Assigned(_, _, _, _)
Assigned(properties, k, object, env) ==
    IF k > Len(properties) THEN env
    ELSE Then(Put(properties[k].target,
                  [env EXCEPT !.value = Property(object, properties[k].key)]),
              LAMBDA put : Assigned(properties, k + 1, object, put))

\* ({a, b: c} = object);
Destructuring(tokens, env) ==
    Then(Assigned(Properties(tokens, 3, Find(tokens, 1, "}")), 1,
                  tokens[Find(tokens, 1, "}") + 2], env),
         LAMBDA done :
            IF done.threw # "nothing" THEN done
            ELSE [done EXCEPT !.value = tokens[Find(tokens, 1, "}") + 2]])

\* A statement of the payload.
Execute(tokens, env) ==
    IF env.threw # "nothing" THEN env
    ELSE CASE tokens[1] = "function" -> env
           [] tokens[1] = "class" ->
                [env EXCEPT !.locals[tokens[2]] = "class " \o tokens[2]]
           [] tokens[1] = "for" -> [env EXCEPT !.value = undefined]
           [] tokens[1] = ";" -> env
           [] tokens[1] = "(" /\ Len(tokens) > 1 /\ tokens[2] = "{" ->
                Destructuring(tokens, env)
           [] OTHER -> Expression(SubSeq(tokens, 1, Len(tokens) - 1), env)

\* Where the statement that starts at i ends: a declaration or a loop at
\* the end of its block, anything else at its semicolon.
EndOf(tokens, i) ==
    LET end == IF tokens[i] \in {"function", "class", "for"}
               THEN Find(tokens, i, "}")
               ELSE Find(tokens, i, ";")
    IN  IF end = 0 THEN Len(tokens) ELSE end

\* The statements of a text from the token at i on, in order.
RECURSIVE StatementsOf(_, _)
StatementsOf(tokens, i) ==
    IF i > Len(tokens) THEN <<>>
    ELSE Then(EndOf(tokens, i),
              LAMBDA end : <<SubSeq(tokens, i, end)>>
                                \o StatementsOf(tokens, end + 1))

\* The statements from the k-th on are run, one after the other.
RECURSIVE Ran(_, _, _)
Ran(statements, k, env) ==
    IF k > Len(statements) THEN env
    ELSE Then(Execute(statements[k], env),
              LAMBDA after : Ran(statements, k + 1, after))

\* The bindings a payload starts with: its functions are bound before it
\* runs, its classes when their statement runs, and $await is declared by
\* the async function.
Hoisted(statements, async) ==
    LET starts(keyword) ==
            {statements[k][2] : k \in {j \in 1..Len(statements) :
                                        statements[j][1] = keyword}}
    IN  [n \in Names |->
            IF n \in starts("function") THEN "function " \o n
            ELSE IF n \in starts("class") THEN TDZ
            ELSE IF n = "$await" /\ async THEN undefined
            ELSE Absent]

\* eval(payload) in a strict function inside 'with ($scope)'.  'await' is
\* only allowed inside the async function.
eval(payload, scope) ==
    LET async == payload[1] = AsyncOpen
        body == IF async
                THEN SubSeq(payload, 2, Len(payload) - 1)
                ELSE payload
    IN  Then(SelectSeq(body, LAMBDA t : t # LF),
             LAMBDA code :
                IF ~async /\ Find(code, 1, "await") > 0
                THEN [scope |-> scope, threw |-> "SyntaxError",
                      promise |-> FALSE, value |-> undefined]
                ELSE Then(StatementsOf(code, 1),
                          LAMBDA statements :
                            Then(Ran(statements, 1,
                                     [scope |-> scope,
                                      locals |-> Hoisted(statements, async),
                                      threw |-> "nothing",
                                      value |-> undefined]),
                                 LAMBDA ran :
                                    [scope |-> ran.scope,
                                     threw |-> ran.threw,
                                     promise |-> async,
                                     value |-> IF async
                                               THEN ran.locals["$await"]
                                               ELSE ran.value])))

\* Object.assign($scope, <identifiers_object_literal>)
assign(scope, identifiers) ==
    LET put[k \in 0..Len(identifiers)] ==
            IF k = 0 THEN scope
            ELSE [put[k - 1] EXCEPT
                    ![identifiers[k].name] = identifiers[k].value]
    IN  put[Len(identifiers)]

\* The mutation of script_template that has one scope for every name.
ScopeOfShared(name) == "A"

\* $scopes[<scope_name_string>]: the scope that a script is evaluated in.
ScopeOf(name) == name

\* A scope as script_template finds or makes it.
Found(scope) ==
    IF scope = NoScope
    THEN [NoScope EXCEPT !["$default"] = undefined, !["$value"] = undefined]
    ELSE scope

\* script_template: the scope of the script's name is made if it is not
\* there and given the identifiers; the payload is evaluated in it, and the
\* value is kept in $value unless the payload threw.
Evaluated(s, all) ==
    Then(eval(s.payload, assign(Found(all[ScopeOf(s.scope)]), s.identifiers)),
         LAMBDA done :
            [scope |-> ScopeOf(s.scope),
             slots |-> IF done.threw # "nothing" /\ ~done.promise
                       THEN done.scope
                       ELSE [done.scope EXCEPT
                                !["$value"] = IF done.promise THEN "Promise"
                                              ELSE done.value],
             outcome |-> [scope |-> s.scope, threw |-> done.threw,
                          promise |-> done.promise,
                          value |-> IF done.threw = "nothing"
                                    THEN done.value ELSE undefined,
                          tree |-> s.tree]])

\* send(message): the source of a command is analyzed and replize makes its
\* script, or throws.
Replize(tree, scope) ==
    /\ replized = NoScript
    /\ evaluations < MaxEvaluations
    /\ replized' = replize(tree, scope)
    /\ evaluation' = NoEvaluation
    /\ evaluations' = evaluations + 1
    /\ UNCHANGED <<scopes, served>>
    /\ UNCHANGED outside_scope

\* The padawan evaluates the script, and waits for its promise to settle
\* when the command says to.
RunScript ==
    /\ replized # NoScript
    /\ replized.threw = "nothing"
    /\ \E evaluated \in {Evaluated(replized, scopes)} :
            /\ scopes' = [scopes EXCEPT ![evaluated.scope] = evaluated.slots]
            /\ evaluation' = evaluated.outcome
    /\ replized' = NoScript
    /\ UNCHANGED <<evaluations, served>>
    /\ UNCHANGED outside_scope

\* replize threw: the Promise of send rejects and nothing is evaluated.
ReplizeThrew ==
    /\ replized.threw # "nothing"
    /\ evaluation' = [NoEvaluation EXCEPT !.scope = replized.scope,
                                           !.threw = replized.threw,
                                           !.tree = replized.tree]
    /\ replized' = NoScript
    /\ UNCHANGED <<scopes, evaluations, served>>
    /\ UNCHANGED outside_scope

ScopeNext ==
    \/ \E tree \in Trees, scope \in ScopeNames : Replize(tree, scope)
    \/ RunScript
    \/ ReplizeThrew

SpecScope == Init /\ [][ScopeNext]_vars

\* serve(url, headers): a padawan asks for a module and the source server
\* rewrites its text.
Serve(tree) ==
    /\ served = NoModule
    /\ served' = [tree |-> tree, text |-> module(tree)]
    /\ UNCHANGED <<scopes, replized, evaluation, evaluations>>
    /\ UNCHANGED outside_scope

\* The response has ended.
Served ==
    /\ served # NoModule
    /\ served' = NoModule
    /\ UNCHANGED <<scopes, replized, evaluation, evaluations>>
    /\ UNCHANGED outside_scope

ServeNext ==
    \/ \E tree \in Trees : Serve(tree)
    \/ Served

SpecServe == Init /\ [][ServeNext]_vars

---------------------------------------------------------------------------
(***************************************************************************)
(* Properties of replize and of the scopes.                                *)
(***************************************************************************)

\* A source that only declares: variables, functions and classes, exported
\* or not.
Declarative(tree) ==
    \A k \in 1..Len(tree) :
        \/ tree[k].type \in {"VariableDeclaration", "FunctionDeclaration",
                             "ClassDeclaration"}
        \/ tree[k].type = "ExportNamedDeclaration"
            /\ tree[k].declaration = "VariableDeclaration"

\* The bindings that a source leaves behind: of each name, the last one.
Given(tree) ==
    UNION {{tree[k].binds[i] :
                i \in {h \in 1..Len(tree[k].binds) :
                        \A l \in (k + 1)..Len(tree) :
                            \A g \in 1..Len(tree[l].binds) :
                                tree[l].binds[g].name
                                    # tree[k].binds[h].name}} :
            k \in 1..Len(tree)}

\* C16, as claimed: the evaluation of declarations in a scope, whatever was
\* evaluated there before, does not fail, and afterwards every identifier
\* the source declared (variable, destructured binding, function or class)
\* has in that scope the value the source gave it.
C16_DeclarationsCarryOver ==
    evaluation.tree # <<>> /\ Declarative(evaluation.tree) =>
        /\ evaluation.threw = "nothing"
        /\ \A b \in Given(evaluation.tree) :
                scopes[evaluation.scope][b.name] = b.value

\* A source that holds an await at its top level, outside every function.
TopLevelAwait(tree) ==
    \E k \in 1..Len(tree) :
        tree[k].type # "FunctionDeclaration" /\ tree[k].awaits # {}

\* The value of the last value-producing statement of a source whose
\* statements all run: of a comma expression, the value of its last operand.
LastValue(tree, scope) ==
    LET producing == {k \in 1..Len(tree) :
                        tree[k].type = "ExpressionStatement"}
        last == CHOOSE k \in producing : \A j \in producing : j <= k
        operand == tree[last].operands[Len(tree[last].operands)]
    IN  IF producing = {} THEN undefined
        ELSE IF operand \in Identifiers THEN scope[operand]
        ELSE operand

\* C17, as claimed: the script evaluates to a promise exactly when the
\* source holds a top-level await, and the promise then resolves to the
\* value of the last value-producing statement that ran.
C17_PromiseOfLastValue ==
    evaluation.tree # <<>> /\ ~Throws(evaluation.tree) =>
        /\ evaluation.promise <=> TopLevelAwait(evaluation.tree)
        /\ evaluation.promise /\ evaluation.threw = "nothing" =>
                evaluation.value
                    = LastValue(evaluation.tree, scopes[evaluation.scope])

\* C18, as claimed: replize completes for every source that parses, and no
\* import or export statement is left in its payload.
C18_NoImportOrExportLeft ==
    replized # NoScript =>
        /\ replized.threw = "nothing"
        /\ \A p \in 1..Len(replized.payload) :
                replized.payload[p] \notin {"import", "export"}

\* C19, as claimed: the payload that replize makes, and the text that the
\* source server sends, have as many lines as the source.
C19_LinesPreserved ==
    /\ replized # NoScript /\ replized.threw = "nothing" =>
            count_lines(replized.payload)
                = count_lines(TextOf(replized.tree))
    /\ served # NoModule =>
            count_lines(served.text) = count_lines(TextOf(served.tree))

\* C20: an evaluation in a scope leaves every other scope as it was, takes
\* no slot away from any scope, and leaves its own scope with a $default and
\* a $value.
C20_ScopesSeparate ==
    [][/\ \A B \in ScopeNames :
            /\ B # replized.scope => scopes'[B] = scopes[B]
            /\ \A s \in Slots :
                    scopes[B][s] # Absent => scopes'[B][s] # Absent
       /\ evaluation'.tree # <<>> /\ evaluation'.threw # "TypeError" =>
            /\ scopes'[evaluation'.scope]["$default"] # Absent
            /\ scopes'[evaluation'.scope]["$value"] # Absent]_vars

\* C20's case: both scopes were used, and the same identifier has a
\* different value in each.
C20_Witness ==
    /\ scopes["A"]["x"] = "1"
    /\ scopes["B"]["x"] = undefined
    /\ evaluation.scope = "B"

\* C19, the part that holds: the text that the source server sends has as
\* many lines as the module's source.
C19_ServedLinesPreserved ==
    served # NoModule =>
        count_lines(served.text) = count_lines(TextOf(served.tree))

(***************************************************************************)
(* node_padawan.js: evaluate, and the line listener that reports.          *)
(***************************************************************************)
\* The module object that import(specifier) resolves to.
ModuleObject(specifier) == [default |-> specifier]

\* What globalThis.eval(script) does: it throws, or it returns a value, which
\* may be a Promise that is fulfilled, rejected, or never settled.
Completion(script) ==
    CASE script = "1" ->
            [threw |-> FALSE, promise |-> "", value |-> 1]
      [] script = "throw 2" ->
            [threw |-> TRUE, promise |-> "", value |-> 2]
      [] script = "Promise.resolve(3)" ->
            [threw |-> FALSE, promise |-> "fulfilled", value |-> 3]
      [] script = "Promise.reject(4)" ->
            [threw |-> FALSE, promise |-> "rejected", value |-> 4]
      [] OTHER ->
            [threw |-> FALSE, promise |-> "pending", value |-> 0]

\* util.inspect of a number.
Digits(n) == <<"0", "1", "2", "3", "4", "5", "6", "7", "8", "9">>[n + 1]

\* util.inspect of the value of a completion.
inspect(v) ==
    CASE v.promise = "" -> <<Digits(v.value)>>
      [] v.promise = "fulfilled" -> <<"Promise {", Digits(v.value), "}">>
      [] v.promise = "rejected" ->
            <<"Promise { <rejected>", Digits(v.value), "}">>
      [] OTHER -> <<"Promise { <pending> }">>

\* The 'catch' of evaluate: an exception that has no stack is inspected.
exception_report(exception) ==
    [exception |-> <<"Exception:">> \o exception]

\* on_evaluated: the report gets the id of its command and is written.
on_evaluated(report, c) == Append(written, report @@ [id |-> commands[c].id])

\* Whether the value of the script is awaited before it is inspected.
MustWaitAlways(c) == TRUE

MustWait(c) == commands[c].wait

\* The line listener parses a command, and evaluate begins its imports.
line(c, script, imports, wait) ==
    /\ commands[c] = NoCommand
    /\ \A d \in LineIds : d < c => commands[d] # NoCommand
    /\ commands' = [commands EXCEPT ![c] =
            [script |-> script, imports |-> imports, wait |-> wait,
             id |-> c]]
    /\ importing' = [importing EXCEPT ![c] = Range(imports)]
    /\ stage' = [stage EXCEPT ![c] = "importing"]
    /\ UNCHANGED <<imports_bound, evaluated_with, written>>
    /\ UNCHANGED outside_padawan

\* An import of a command is loaded.
import_fulfilled(c, specifier) ==
    /\ specifier \in importing[c] \ Missing
    /\ importing' = [importing EXCEPT ![c] = @ \ {specifier}]
    /\ UNCHANGED <<commands, stage, imports_bound, evaluated_with, written>>
    /\ UNCHANGED outside_padawan

\* An import of a command fails.  The first failure rejects the Promise.all,
\* which skips the evaluation and reaches the 'catch'.
import_rejected(c, specifier) ==
    /\ specifier \in importing[c] \cap Missing
    /\ importing' = [importing EXCEPT ![c] = @ \ {specifier}]
    /\ IF stage[c] = "importing"
       THEN /\ stage' = [stage EXCEPT ![c] = "reported"]
            /\ written' = on_evaluated(
                    [exception |-> <<"Error: Cannot find module", specifier>>],
                    c)
       ELSE UNCHANGED <<stage, written>>
    /\ UNCHANGED <<commands, imports_bound, evaluated_with>>
    /\ UNCHANGED outside_padawan

\* The script begins with Object.assign($scope, {name: $imports[0], ...}): its
\* import names take their values from the global $imports as it is when the
\* script is evaluated, 'before' being the global as the callback found it
\* and 'after' the global as the callback has set it.
ImportsOfScriptStale(before, after) == before.modules

ImportsOfScript(before, after) == after.modules

\* Every import of the command was loaded: $imports is bound, and the script
\* is evaluated.
then_modules(c) ==
    /\ stage[c] = "importing"
    /\ importing[c] = {}
    /\ \E modules \in {[i \in DOMAIN commands[c].imports |->
                            ModuleObject(commands[c].imports[i])]},
          value \in {Completion(commands[c].script)} :
            /\ imports_bound' = [bound |-> TRUE, modules |-> modules]
            /\ evaluated_with' = [evaluated_with EXCEPT ![c] =
                    [evaluated |-> TRUE,
                     imports |-> ImportsOfScript(imports_bound,
                                                 imports_bound')]]
            /\ IF value.threw
               THEN /\ written' = on_evaluated(
                            exception_report(<<Digits(value.value)>>), c)
                    /\ stage' = [stage EXCEPT ![c] = "reported"]
               ELSE IF MustWait(c) /\ value.promise # ""
               THEN /\ stage' = [stage EXCEPT ![c] = "waiting"]
                    /\ UNCHANGED written
               ELSE /\ written' = on_evaluated(
                            [evaluation |-> inspect(value)], c)
                    /\ stage' = [stage EXCEPT ![c] = "reported"]
    /\ UNCHANGED <<commands, importing>>
    /\ UNCHANGED outside_padawan

\* The Promise that the script returned, and that evaluate waits for, settles.
then_value(c) ==
    /\ stage[c] = "waiting"
    /\ \E value \in {Completion(commands[c].script)} :
        /\ value.promise \in {"fulfilled", "rejected"}
        /\ written' = on_evaluated(
                IF value.promise = "fulfilled"
                THEN [evaluation |-> <<Digits(value.value)>>]
                ELSE exception_report(<<Digits(value.value)>>), c)
    /\ stage' = [stage EXCEPT ![c] = "reported"]
    /\ UNCHANGED <<commands, importing, imports_bound, evaluated_with>>
    /\ UNCHANGED outside_padawan

PadawanStep ==
    \/ \E c \in LineIds : \E specifier \in importing[c] :
            \/ import_fulfilled(c, specifier)
            \/ import_rejected(c, specifier)
    \/ \E c \in LineIds : then_modules(c)
    \/ \E c \in LineIds : then_value(c)

PadawanNext ==
    \/ \E c \in LineIds, script \in PadawanScripts, imports \in ImportArrays,
          wait \in BOOLEAN : line(c, script, imports, wait)
    \/ PadawanStep

SpecPadawan == Init /\ [][PadawanNext]_vars

\* The event loop runs every reaction that is ready, and every import is
\* loaded or fails.
SpecPadawanFair == SpecPadawan /\ WF_vars(PadawanStep)

\* The reports written for a command.
ReportsOf(c) == {k \in DOMAIN written : written[k].id = commands[c].id}

\* C21 (as stated): for each command the script is evaluated only after
\* all of its imports are loaded and bound as $imports, never if an import
\* fails, and in every case exactly one report is sent for the command.
C21_AlwaysOneReport ==
    \A c \in LineIds :
        (commands[c] # NoCommand) ~> (Cardinality(ReportsOf(c)) = 1)

\* What holds of the evaluations and the reports at every moment.
C21_Reports ==
    \A c \in LineIds :
        /\ evaluated_with[c] # NotEvaluated
            => /\ commands[c] # NoCommand
               /\ importing[c] = {}
               /\ Range(commands[c].imports) \cap Missing = {}
               /\ evaluated_with[c].imports =
                    [i \in DOMAIN commands[c].imports |->
                        [default |-> commands[c].imports[i]]]
        /\ commands[c] # NoCommand => Cardinality(ReportsOf(c)) <= 1
        /\ \A k \in ReportsOf(c) :
            /\ \/ DOMAIN written[k] = {"id", "evaluation"}
               \/ DOMAIN written[k] = {"id", "exception"}
            /\ evaluated_with[c] = NotEvaluated
                => DOMAIN written[k] = {"id", "exception"}
            /\ (evaluated_with[c].evaluated /\ ~commands[c].wait)
                => /\ commands[c].script = "Promise.resolve(3)"
                        => written[k] = [id |-> commands[c].id, evaluation |->
                                            <<"Promise {", "3", "}">>]
                   /\ commands[c].script = "Promise.reject(4)"
                        => written[k] = [id |-> commands[c].id, evaluation |->
                                            <<"Promise { <rejected>", "4", "}">>]
            /\ (evaluated_with[c].evaluated /\ commands[c].wait)
                => /\ commands[c].script = "Promise.resolve(3)"
                        => written[k] = [id |-> commands[c].id,
                                         evaluation |-> <<"3">>]
                   /\ commands[c].script = "Promise.reject(4)"
                        => written[k] = [id |-> commands[c].id,
                                         exception |-> <<"Exception:", "4">>]
        /\ (~commands[c].wait /\ evaluated_with[c] # NotEvaluated)
            => ReportsOf(c) # {}

\* The script of the command returned a Promise that never settles, and the
\* command asked to wait for it.
WaitsForever(c) ==
    /\ commands[c].wait
    /\ commands[c].script = "new Promise(() => {})"
    /\ Range(commands[c].imports) \cap Missing = {}

\* C21 (amended): the script is evaluated only after all the imports of its
\* command are loaded and bound as $imports, never if an import fails; at
\* most one report is written for a command, with its id and exactly one of
\* evaluation or exception, the value being awaited only when wait is true;
\* and the report is eventually written unless the command waits for a
\* Promise that never settles.
C21_OneReportUnlessWaitingForever ==
    /\ []C21_Reports
    /\ \A c \in LineIds :
        (commands[c] # NoCommand)
            ~> (Cardinality(ReportsOf(c)) = 1 \/ WaitsForever(c))

\* C21 witness: a command whose import failed was reported without being
\* evaluated, and another waits for a Promise that never settles.
C21_Witness ==
    /\ commands[1] # NoCommand
    /\ commands[1].imports = <<"./a.js", "./missing.js">>
    /\ evaluated_with[1] = NotEvaluated
    /\ Cardinality(ReportsOf(1)) = 1
    /\ WaitsForever(2)
    /\ stage[2] = "waiting"
    /\ evaluated_with[2] = [evaluated |-> TRUE, imports |-> <<>>]

(***************************************************************************)
(* make.js: safe_read, default_read, and the reads of the REPLs            *)
(* (repl.js: read, hash_source, analyze, serve).                           *)
(***************************************************************************)
StartsWith(string, prefix) ==
    /\ Len(prefix) <= Len(string)
    /\ SubSeq(string, 1, Len(prefix)) = prefix

\* root_locator.replace(/\/?$/, "/")
KeepEnd(string) == string

EnsureTrailingSlash(string) ==
    IF string[Len(string)] = "/" THEN string ELSE Append(string, "/")

\* new URL(locator), the end of a path segment: a ".." segment removes the
\* segment before it, a "." segment is dropped, and each leaves an empty
\* segment when it is the last.
EndSegment(segments, buffer, last) ==
    IF buffer = <<".", ".">>
    THEN LET shortened == IF segments = <<>> THEN <<>>
                          ELSE SubSeq(segments, 1, Len(segments) - 1)
         IN  IF last THEN Append(shortened, <<>>) ELSE shortened
    ELSE IF buffer = <<".">>
    THEN IF last THEN Append(segments, <<>>) ELSE segments
    ELSE Append(segments, buffer)

\* new URL(locator): the segments of the path of a file URL.
RECURSIVE PathSegments(_, _, _, _)
PathSegments(string, i, segments, buffer) ==
    IF i > Len(string) THEN EndSegment(segments, buffer, TRUE)
    ELSE IF string[i] = "/"
    THEN PathSegments(string, i + 1, EndSegment(segments, buffer, FALSE),
                      <<>>)
    ELSE PathSegments(string, i + 1, segments, Append(buffer, string[i]))

\* Whether new URL(locator) throws: the locator has no scheme.
InvalidURL(locator) == locator[1] # file

\* new URL(locator).pathname, as segments.
pathname(locator) == PathSegments(locator, 3, <<>>, <<>>)

RECURSIVE Joined(_, _)
Joined(segments, i) ==
    IF i > Len(segments) THEN <<>>
    ELSE <<"/">> \o segments[i] \o Joined(segments, i + 1)

\* new URL(locator).href
href(locator) == <<file>> \o Joined(pathname(locator), 1)

\* The file that default_read opens: fileURLToPath(new URL(locator)), as the
\* names that lead to it from the root of the filesystem.
RECURSIVE Components(_, _)
Components(segments, i) ==
    IF i > Len(segments) THEN <<>>
    ELSE (IF segments[i] = <<>> THEN <<>> ELSE <<segments[i]>>)
         \o Components(segments, i + 1)

default_read(locator) == Components(pathname(locator), 1)

\* safe_read(locator): it throws, rejects, or calls the read capability.
safe_read(locator) ==
    IF InvalidURL(locator) THEN [outcome |-> "TypeError: Invalid URL"]
    ELSE IF ~StartsWith(href(locator), EnsureTrailingSlash(root_locator))
    THEN [outcome |-> "Forbidden"]
    ELSE [outcome |-> "read"]

\* make_replete(options)
make_replete(root) ==
    /\ root_locator = NoLocator
    /\ root_locator' = root
    /\ UNCHANGED <<request, cached, opened, rejection>>
    /\ UNCHANGED outside_safe

\* A REPL reads a locator: for an evaluation (analyze), for a hash
\* (hash_source), or to serve a file that is not a module (serve).  The first
\* two store their Promises in the caches at once.
ReadBegins(locator, for) ==
    /\ root_locator # NoLocator
    /\ request = NoRequest
    /\ locator \notin cached.reading
    /\ request' = [locator |-> locator, for |-> for, stage |-> "called"]
    /\ cached' =
        CASE for = "analyze" ->
                [cached EXCEPT !.reading = @ \cup {locator},
                               !.analyzing = @ \cup {locator}]
          [] for = "hash" ->
                [cached EXCEPT !.reading = @ \cup {locator},
                               !.hashing = @ \cup {locator}]
          [] OTHER -> cached
    /\ opened' = NothingOpened
    /\ rejection' = ""
    /\ UNCHANGED root_locator
    /\ UNCHANGED outside_safe

\* capabilities.read(locator) is called, which is safe_read.
SafeRead ==
    /\ request.stage = "called"
    /\ \E result \in {safe_read(request.locator)} :
        /\ opened' = IF result.outcome = "read"
                     THEN default_read(request.locator)
                     ELSE opened
        /\ rejection' = IF result.outcome = "read" THEN ""
                        ELSE result.outcome
    /\ request' = [request EXCEPT !.stage = "settling"]
    /\ UNCHANGED <<root_locator, cached>>
    /\ UNCHANGED outside_safe

\* The Promise of the read settles: on_fail invalidates the entries of the
\* locator.
ReadSettles ==
    /\ request.stage = "settling"
    /\ cached' = IF rejection # "" /\ request.for # "serve"
                 THEN [reading |-> cached.reading \ {request.locator},
                       hashing |-> cached.hashing \ {request.locator},
                       analyzing |-> cached.analyzing \ {request.locator}]
                 ELSE cached
    /\ request' = [request EXCEPT !.stage = "settled"]
    /\ UNCHANGED <<root_locator, opened, rejection>>
    /\ UNCHANGED outside_safe

\* The REPL is given back the outcome; a file that was read may change, which
\* invalidates its entries.
ReadReturns ==
    /\ request.stage = "settled"
    /\ request' = NoRequest
    /\ cached' = NoEntries
    /\ UNCHANGED <<root_locator, opened, rejection>>
    /\ UNCHANGED outside_safe

SafeNext ==
    \/ \E root \in RootLocators : make_replete(root)
    \/ \E locator \in FileLocators, for \in {"analyze", "hash", "serve"} :
            ReadBegins(locator, for)
    \/ SafeRead
    \/ ReadSettles
    \/ ReadReturns

SpecSafe == Init /\ [][SafeNext]_vars

\* The directory that root_locator names.
RootDirectory == default_read(root_locator)

\* Whether a file lies in a directory or below it, name by name.
LiesUnder(names, directory) ==
    /\ Len(directory) <= Len(names)
    /\ \A i \in DOMAIN directory : names[i] = directory[i]

\* C22: the read capability is never invoked for a locator outside the root
\* locator: every read of a locator whose normalised URL does not lie under
\* root_locator is rejected as Forbidden and leaves no cache entry.
C22_NoReadOutsideRoot ==
    /\ opened # NothingOpened => LiesUnder(opened, RootDirectory)
    /\ (/\ request.stage \in {"settling", "settled"}
        /\ ~InvalidURL(request.locator)
        /\ ~LiesUnder(default_read(request.locator), RootDirectory))
        => /\ rejection = "Forbidden"
           /\ opened = NothingOpened
           /\ request.stage = "settled" =>
                /\ request.locator \notin cached.reading
                /\ request.locator \notin cached.hashing
                /\ request.locator \notin cached.analyzing

\* C22 witness: a locator that leaves the root by ".." segments was refused,
\* and so was one that shares a prefix of the name of the root.
C22_Witness ==
    /\ root_locator = <<file, "/", "p">>
    /\ request.stage = "settled"
    /\ request.for = "analyze"
    /\ request.locator \in {<<file, "/", "p", "/", ".", ".">>,
                            <<file, "/", "p", "q", "/">>}
    /\ rejection = "Forbidden"

(***************************************************************************)
(* repl.js: versionize, specify and serve.                                 *)
(***************************************************************************)
\* capabilities.mime(locator): default_mime.
mime(locator) ==
    IF locator[Len(locator)] = ".js" THEN "text/javascript" ELSE undefined

\* locator.startsWith("file:///")
IsFile(locator) ==
    Len(locator) >= 2 /\ locator[1] = file /\ locator[2] = "/"

\* versionize(locator), the version of the locator being N: the versioning
\* is put after the "file://".
versionize(locator, N) ==
    IF ~IsFile(locator) \/ mime(locator) # "text/javascript"
    THEN locator
    ELSE <<file, "/", "v", Digits(N), "/", unguessable>> \o Tail(locator)

\* specify(locator) of the CMDL REPLs: the URL that the padawan requests.
specify(locator) ==
    IF IsFile(locator) THEN <<http>> \o Tail(locator) ELSE locator

\* The index of the first "/" of the string at i or after it, or the length
\* of the string and one more.
RECURSIVE NextSlash(_, _)
NextSlash(string, i) ==
    IF i > Len(string) \/ string[i] = "/" THEN i
    ELSE NextSlash(string, i + 1)

\* locator.match(rx_versioned_locator): the whole match, the version, the
\* unguessable and the locator that remains; or no match.
NoMatch == <<>>

rx_versioned_locator(locator) ==
    IF Len(locator) < 3 \/ locator[1] # file \/ locator[2] # "/"
        \/ locator[3] # "v"
    THEN NoMatch
    ELSE LET k == NextSlash(locator, 4)
             m == NextSlash(locator, k + 1)
         IN  IF k = 4 \/ k > Len(locator) \/ m = k + 1
             THEN NoMatch
             ELSE <<locator,
                    SubSeq(locator, 4, k - 1),
                    SubSeq(locator, k + 1, m - 1),
                    SubSeq(locator, m, Len(locator))>>

\* The locator that serve(url) works with: that of the path of the URL,
\* without the versioning this REPL gave it.
serve(url) ==
    LET locator == <<file>> \o Joined(pathname(url), 1)
        matches == rx_versioned_locator(locator)
    IN  IF matches # NoMatch /\ matches[3] = <<unguessable>>
        THEN <<file>> \o matches[4]
        ELSE locator

\* start(): the unguessable is drawn.
start(token) ==
    /\ unguessable = ""
    /\ unguessable' = token
    /\ UNCHANGED <<versionized, asked, delivered>>
    /\ UNCHANGED outside_strip

\* versionize(locator) resolves, the version of the locator being N.
Versionize(locator, N) ==
    /\ unguessable # ""
    /\ versionized = NotVersionized
    /\ delivered = <<>>
    /\ versionized' = [locator |-> locator, version |-> N,
                       result |-> versionize(locator, N)]
    /\ asked' = <<>>
    /\ delivered' = <<>>
    /\ UNCHANGED unguessable
    /\ UNCHANGED outside_strip

\* The padawan imports the module that versionize named, and serve is given
\* its URL.
ServeVersioned ==
    /\ versionized # NotVersionized
    /\ delivered = <<>>
    /\ IsFile(versionized.result)
    /\ asked' = specify(versionized.result)
    /\ delivered' = serve(specify(versionized.result))
    /\ UNCHANGED <<unguessable, versionized>>
    /\ UNCHANGED outside_strip

\* serve is given any other URL of the server.
ServeAny(path) ==
    /\ unguessable # ""
    /\ versionized = NotVersionized
    /\ delivered = <<>>
    /\ UNCHANGED versionized
    /\ asked' = <<http>> \o path
    /\ delivered' = serve(<<http>> \o path)
    /\ UNCHANGED unguessable
    /\ UNCHANGED outside_strip

\* The response of serve is sent, or the locator that versionize gave is not
\* imported from this server.
Responded ==
    /\ versionized # NotVersionized \/ delivered # <<>>
    /\ versionized' = NotVersionized
    /\ asked' = <<>>
    /\ delivered' = <<>>
    /\ UNCHANGED unguessable
    /\ UNCHANGED outside_strip

StripNext ==
    \/ \E token \in Unguessables : start(token)
    \/ \E locator \in LocatorsToVersion, N \in 0..MaxVersion :
            Versionize(locator, N)
    \/ ServeVersioned
    \/ \E path \in VersionedPaths : ServeAny(path)
    \/ Responded

SpecStrip == Init /\ [][StripNext]_vars

\* The URL that serve was given carries the unguessable of this REPL after a
\* version.
CarriesUnguessable(url) ==
    LET segments == pathname(url)
    IN  /\ Len(segments) >= 2
        /\ Len(segments[1]) >= 2
        /\ segments[1][1] = "v"
        /\ segments[2] = <<unguessable>>

\* C23: versioning round-trips: what serve strips from the versioned locator
\* that versionize produced leaves exactly the locator it was given; a
\* "/v<N>/<token>/" prefix is stripped only when the token is the
\* unguessable of this REPL, and the path is left untouched otherwise; and
\* versionize returns a locator that is not a file, or is not JavaScript,
\* unchanged.
C23_VersioningRoundTrips ==
    /\ (/\ versionized # NotVersionized
        /\ versionized.result # versionized.locator
        /\ delivered # <<>>)
        => delivered = versionized.locator
    /\ (delivered # <<>> /\ ~CarriesUnguessable(asked))
        => delivered = <<file>> \o Joined(pathname(asked), 1)
    /\ (/\ versionized # NotVersionized
        /\ \/ versionized.locator[1] # file
           \/ versionized.locator[Len(versionized.locator)] # ".js")
        => versionized.result = versionized.locator

\* Whether a locator has a "." or ".." segment.
HasDotSegment(locator) ==
    \E i \in 2..Len(locator) :
        /\ locator[i - 1] = "/"
        /\ locator[i] = "."
        /\ \/ i = Len(locator)
           \/ locator[i + 1] = "/"
           \/ (locator[i + 1] = "." /\ (i + 1 = Len(locator)
                                         \/ locator[i + 2] = "/"))

\* The round trip of the locators that have no "." and no ".." segment.
RoundTripsWithoutDotSegments ==
    (/\ versionized # NotVersionized
     /\ versionized.result # versionized.locator
     /\ delivered # <<>>
     /\ ~HasDotSegment(versionized.locator))
        => delivered = versionized.locator

\* C23 witness: the ".." segment of the locator file:///../p.js removed the
\* unguessable from the path that serve sees, which is served as it is.
C23_Witness ==
    /\ versionized.locator = <<file, "/", ".", ".", "/", "p", ".js">>
    /\ asked = <<http, "/", "v", "0", "/", "abcd", "/", ".", ".", "/", "p",
                 ".js">>
    /\ delivered = <<file, "/", "v", "0", "/", "p", ".js">>

(***************************************************************************)
(* node_resolve.js: unwrap_export, glob_map and internalize.               *)
(***************************************************************************)
\* Whether a value is truthy, and the operators || and ??.
Truthy(value) ==
    \/ value.type \in {"object", "array"}
    \/ value.type = "string" /\ value.string # <<>>

Or(a, b) == IF Truthy(a) THEN a ELSE b

Nullish(a, b) == IF a.type \in {"undefined", "null"} THEN b ELSE a

\* value[key]
Member(value, key) ==
    IF value.type = "object"
        /\ \E i \in DOMAIN value.items : value.items[i].string = key
    THEN value.items[CHOOSE i \in DOMAIN value.items :
                        value.items[i].string = key].items[1]
    ELSE NoValue

\* What an exception thrown by the resolution is written as.
Thrown(name) == [type |-> name, string |-> <<>>, items |-> <<>>]

RECURSIVE unwrap_export(_)
unwrap_export(value) ==
    IF value.type = "string" THEN value
    ELSE IF value.type = "array"
    THEN unwrap_export(IF value.items = <<>> THEN NoValue
                       ELSE value.items[1])
    ELSE IF Truthy(value)
    THEN unwrap_export(Or(Or(Member(value, <<"import">>),
                             Member(value, <<"module">>)),
                          Member(value, <<"default">>)))
    ELSE NoValue

EndsWith(string, suffix) ==
    /\ Len(suffix) <= Len(string)
    /\ SubSeq(string, Len(string) - Len(suffix) + 1, Len(string)) = suffix

\* The first two elements of string.split("*"): the second is undefined when
\* the string has no "*".
Split(string) ==
    LET stars == {i \in DOMAIN string : string[i] = "*"}
    IN  IF stars = {}
        THEN [prefix |-> string, suffix |-> <<>>, starred |-> FALSE]
        ELSE LET first == CHOOSE i \in stars : \A j \in stars : i <= j
                 after == {i \in stars : i > first}
                 second == IF after = {} THEN Len(string) + 1
                           ELSE CHOOSE i \in after : \A j \in after : i <= j
             IN  [prefix |-> SubSeq(string, 1, first - 1),
                  suffix |-> SubSeq(string, first + 1, second - 1),
                  starred |-> TRUE]

\* string.slice(from_prefix.length, -from_suffix.length)
Filling(string, from) ==
    IF Len(from.prefix) + Len(from.suffix) > Len(string) THEN <<>>
    ELSE SubSeq(string, Len(from.prefix) + 1, Len(string) - Len(from.suffix))

\* glob_map(string, mappings), from the i-th of the entries of the mappings.
RECURSIVE glob_map(_, _, _)
glob_map(string, mappings, i) ==
    IF mappings.type # "object" \/ i > Len(mappings.items) THEN NoValue
    ELSE LET from == Split(mappings.items[i].string)
             to == mappings.items[i].items[1]
         IN  IF from.starred /\ StartsWith(string, from.prefix)
                    /\ EndsWith(string, from.suffix)
             THEN IF to.type # "string"
                  THEN Thrown("TypeError")
                  ELSE IF Split(to.string).starred
                  THEN Str(Split(to.string).prefix \o Filling(string, from)
                           \o Split(to.string).suffix)
                  ELSE glob_map(string, mappings, i + 1)
             ELSE glob_map(string, mappings, i + 1)

\* internalize(external, manifest)
internalizeLoose(external, manifest) ==
    IF external = Root
    THEN Nullish(
            IF manifest.exports.type # "undefined"
            THEN unwrap_export(Nullish(Member(manifest.exports, Root),
                                       manifest.exports))
            ELSE NoValue,
            Nullish(manifest.module,
                    Nullish(manifest.main, Str(<<"./", "index", ".js">>))))
    ELSE Nullish(
            IF manifest.exports.type # "undefined"
            THEN Nullish(unwrap_export(Member(manifest.exports, external)),
                         glob_map(external, manifest.exports, 1))
            ELSE NoValue,
            Str(external))

internalize(external, manifest) ==
    IF manifest.exports.type # "undefined"
    THEN IF external = Root
         THEN unwrap_export(Nullish(Member(manifest.exports, Root),
                                    manifest.exports))
         ELSE Nullish(unwrap_export(Member(manifest.exports, external)),
                      glob_map(external, manifest.exports, 1))
    ELSE IF external = Root
         THEN Nullish(manifest.module,
                      Nullish(manifest.main, Str(<<"./", "index", ".js">>)))
         ELSE Str(external)

\* node_resolve has found the manifest of the package: the external path is
\* internalized.
Internalize(external, manifest) ==
    /\ resolving = NotResolving
    /\ resolving' = [external |-> external, manifest |-> manifest]
    /\ internal' = internalize(external, manifest)
    /\ UNCHANGED outside_exports

\* node_resolve settles: it fails when nothing is exported, or when an
\* exception was thrown.
Internalized ==
    /\ resolving # NotResolving
    /\ resolving' = NotResolving
    /\ internal' = NoValue
    /\ UNCHANGED outside_exports

ExportsNext ==
    \/ \E external \in Externals, manifest \in Manifests :
            Internalize(external, manifest)
    \/ Internalized

SpecExports == Init /\ [][ExportsNext]_vars

\* Whether an object has a key.
Has(value, key) ==
    /\ value.type = "object"
    /\ \E i \in DOMAIN value.items : value.items[i].string = key

\* The unwrapping that takes the first of "import", "module" and "default"
\* that the object has, at every level, and the first element of an array.
RECURSIVE FirstPresent(_)
FirstPresent(value) ==
    IF value.type = "string" THEN value
    ELSE IF value.type = "array"
    THEN IF value.items = <<>> THEN NoValue ELSE FirstPresent(value.items[1])
    ELSE IF Has(value, <<"import">>)
    THEN FirstPresent(Member(value, <<"import">>))
    ELSE IF Has(value, <<"module">>)
    THEN FirstPresent(Member(value, <<"module">>))
    ELSE IF Has(value, <<"default">>)
    THEN FirstPresent(Member(value, <<"default">>))
    ELSE NoValue

\* C24: a conditional export is unwrapped by taking, at every level, the
\* first present of "import", "module" and "default", in that order; the
\* other conditions are ignored, an array unwraps to its first element, and
\* when no such condition is present the subpath is not exported.
C24_FirstPresentCondition ==
    (/\ resolving # NotResolving
     /\ Has(resolving.manifest.exports, resolving.external))
        => internal = FirstPresent(Member(resolving.manifest.exports,
                                          resolving.external))

\* C24 witness: the subpath "./a.js" has only the condition "require", and
\* is exported all the same, by the key "./*" that comes after it.
C24_Witness ==
    /\ resolving.external = <<"./", "a", ".js">>
    /\ resolving.manifest.exports =
        Obj(<<Entry(<<"./", "a", ".js">>,
                    Obj(<<Entry(<<"require">>,
                                Str(<<"./", "dist/", "a", ".js">>))>>)),
              Entry(<<"./", "*">>, Str(<<"./", "dist/", "*">>))>>)
    /\ internal = Str(<<"./", "dist/", "a", ".js">>)

\* The keys of the exports that have one "*", and match the subpath: it
\* starts with what is before the "*" and ends with what is after it.
StarsOf(key) == {i \in DOMAIN key : key[i] = "*"}

MatchingGlobs(exports, external) ==
    {i \in DOMAIN exports.items :
        LET key == exports.items[i].string
        IN  /\ Cardinality(StarsOf(key)) = 1
            /\ \E star \in StarsOf(key) :
                /\ StartsWith(external, SubSeq(key, 1, star - 1))
                /\ EndsWith(external, SubSeq(key, star + 1, Len(key)))}

\* The value of a key with a "*", the "*" being replaced with the middle of
\* the subpath that the key matched.
Substituted(key, value, external) ==
    LET star == CHOOSE i \in StarsOf(key) : TRUE
        middle == SubSeq(external, star, Len(external) - (Len(key) - star))
        target == unwrap_export(value)
    IN  IF target = NoValue THEN NoValue
        ELSE IF StarsOf(target.string) = {} THEN target
        ELSE LET at == CHOOSE i \in StarsOf(target.string) : TRUE
             IN  Str(SubSeq(target.string, 1, at - 1) \o middle
                     \o SubSeq(target.string, at + 1, Len(target.string)))

\* C25: for a subpath of a package with exports that is not the root, a key
\* that is the subpath takes precedence over every key with a "*";
\* otherwise a key with one "*" matches exactly when the subpath starts with
\* its prefix and ends with its suffix, and the middle replaces the "*" of
\* the value; a subpath whose suffix does not match is not exported.
C25_ExactThenGlob ==
    (/\ resolving # NotResolving
     /\ resolving.external # Root
     /\ resolving.manifest.exports.type = "object")
        => LET exports == resolving.manifest.exports
               external == resolving.external
           IN  IF Has(exports, external)
               THEN internal = unwrap_export(Member(exports, external))
               ELSE IF MatchingGlobs(exports, external) = {}
               THEN internal = NoValue
               ELSE \E i \in MatchingGlobs(exports, external) :
                        internal = Substituted(exports.items[i].string,
                                               exports.items[i].items[1],
                                               external)

\* C25 witness: the key "./w/*" matches the subpath "./w/a.js", its value is
\* a conditional, and glob_map throws.
C25_Witness ==
    /\ resolving.external = <<"./", "w/", "a", ".js">>
    /\ ~Has(resolving.manifest.exports, resolving.external)
    /\ \E i \in DOMAIN resolving.manifest.exports.items :
        /\ resolving.manifest.exports.items[i].string = <<"./", "w/", "*">>
        /\ resolving.manifest.exports.items[i].items[1] =
            Obj(<<Entry(<<"import">>, Str(<<"./", "dist/", "*">>))>>)
    /\ internal = Thrown("TypeError")

\* What node_resolve fails with, given what internalize returned.
message(value) ==
    IF value = NoValue THEN "Not exported."
    ELSE IF value.type = "string" THEN ""
    ELSE value.type

Above(directory) ==
    IF directory = <<>> THEN <<>>
    ELSE SubSeq(directory, 1, Len(directory) - 1)

\* The URL of the directory of a URL.
DirectoryURL(url) == [directory |-> url.directory, file |-> FALSE]

\* new URL("../", from_url): the directory above that of the URL.
ParentURL(url) == [directory |-> Above(url.directory), file |-> FALSE]

\* Whether the manifest of the package can be read and parsed, in the
\* node_modules of the directory.
Readable(directory) == <<directory, "manifest">> \in node_modules

\* node_resolve calls find_manifest(package_name, new URL(parent_locator)),
\* the parent being a file of the directory.
FindManifest(directory, installed) ==
    /\ search = NoSearch
    /\ node_modules' = installed
    /\ from_url' = [directory |-> directory, file |-> TRUE]
    /\ checked' = <<>>
    /\ search' = [stage |-> "searching", parent |-> directory,
                  manifest_url |-> <<"none">>]
    /\ UNCHANGED outside_manifest

\* find_manifest: readFile and JSON.parse settle.  When they fail, the
\* search goes on in the directory above, unless there is none.
find_manifest ==
    /\ search.stage = "searching"
    /\ checked' = Append(checked, from_url.directory)
    /\ IF Readable(from_url.directory)
       THEN /\ search' = [search EXCEPT
                    !.stage = "found",
                    !.manifest_url = from_url.directory]
            /\ UNCHANGED from_url
       ELSE IF ParentURL(from_url) = from_url
       THEN /\ search' = [search EXCEPT !.stage = "not found"]
            /\ UNCHANGED from_url
       ELSE /\ from_url' = ParentURL(from_url)
            /\ UNCHANGED search
    /\ UNCHANGED node_modules
    /\ UNCHANGED outside_manifest

\* node_resolve goes on with the manifest, or fails.
ManifestSettled ==
    /\ search.stage \in {"found", "not found"}
    /\ search' = NoSearch
    /\ node_modules' = {}
    /\ from_url' = NoURL
    /\ checked' = <<>>
    /\ UNCHANGED outside_manifest

ManifestNext ==
    \/ \E directory \in Directories, installed \in Installed(MaxInstalled) :
            FindManifest(directory, installed)
    \/ find_manifest
    \/ ManifestSettled

SpecManifest == Init /\ [][ManifestNext]_vars

\* Every readFile settles.
SpecManifestFair == SpecManifest /\ WF_vars(find_manifest)

\* Whether a directory is another one, or is above it.
IsAncestor(ancestor, directory) ==
    /\ Len(ancestor) <= Len(directory)
    /\ SubSeq(directory, 1, Len(ancestor)) = ancestor

\* The directories that hold a readable manifest, among a directory and
\* those above it.
ReadableAbove(directory) ==
    {d \in Directories : IsAncestor(d, directory) /\ Readable(d)}

\* What holds of the search at every moment: the directories are checked
\* from that of the parent upwards, none is passed over, and none is checked
\* that is not above the parent; the manifest found is the nearest; the
\* search fails only when the root was checked and nothing was found.
C26_NearestFirst ==
    /\ \A i \in DOMAIN checked :
        /\ IsAncestor(checked[i], search.parent)
        /\ i = 1 => checked[i] = search.parent
        /\ i > 1 => checked[i] = Above(checked[i - 1])
        /\ i < Len(checked) => ~Readable(checked[i])
    /\ search.stage = "found"
        => /\ search.manifest_url = checked[Len(checked)]
           /\ search.manifest_url \in ReadableAbove(search.parent)
           /\ \A d \in ReadableAbove(search.parent) :
                Len(d) <= Len(search.manifest_url)
    /\ search.stage = "not found"
        => /\ ReadableAbove(search.parent) = {}
           /\ checked # <<>>
           /\ checked[Len(checked)] = <<>>

\* C26: the search of the manifest always terminates, and is nearest-first:
\* from the directory of the parent it checks the node_modules of each
\* directory above, in order, up to the root of the filesystem; it returns
\* the first manifest found, never one of a sibling or of a directory below;
\* and it fails once the root has been checked.
C26_SearchTerminatesNearestFirst ==
    /\ []C26_NearestFirst
    /\ (search.stage = "searching")
            ~> (search.stage \in {"found", "not found"})

\* C26 witness: the parent is in /a/b/a, the package is installed in /a and
\* in the sibling /a/a; /a/b/a, /a/b and /a were checked, and the manifest
\* of /a was found.
C26_Witness ==
    /\ search.stage = "found"
    /\ search.parent = <<"a", "b", "a">>
    /\ node_modules = {<<<<"a">>, "manifest">>, <<<<"a", "a">>, "manifest">>}
    /\ checked = <<<<"a", "b", "a">>, <<"a", "b">>, <<"a">>>>
    /\ search.manifest_url = <<"a">>

\* ==========================================================================
\* The browser REPL (node_resolve.js, make_browser_repl) and the evaluation of
\* a command in a WEBL client (webl.js).
\* ==========================================================================

\* client.origin: the origin the client's page was served from.
origin(client) == <<"http://localhost:", Digits(client)>>

\* on_eval, qualify: an absolute path gets the origin of the client.
qualify(specifier, client) ==
    IF Head(specifier) = "/" THEN origin(client) \o specifier ELSE specifier

\* Whether the dynamic import() of a specifier is fulfilled in the padawan.
Importable(specifier) == specifier[Len(specifier)] # "missing.js"

\* webl.js, reason: an exception that has no stack.
reason(exception) == <<"Exception: ">> \o exception

\* webl.js, padawan_eval_script_template: the "evaluation" message a padawan
\* sends for the script, imports and wait it was given, if it sends one. A
\* rejected import or a throw is caught and reported as an exception, a value
\* is inspected, and a Promise never settled is awaited for ever when wait is
\* true.
padawan_eval_script_template(script, imports, wait) ==
    LET rejected == {i \in 1..Len(imports) : ~Importable(imports[i])}
        first == CHOOSE i \in rejected : \A j \in rejected : i <= j
    IN  CASE rejected # {} ->
                [sent |-> TRUE, evaluation |-> <<>>,
                 exception |-> reason(<<"TypeError: ">> \o imports[first])]
          [] script = <<"throw 2">> ->
                [sent |-> TRUE, evaluation |-> <<>>,
                 exception |-> reason(<<"2">>)]
          [] script = <<"1">> ->
                [sent |-> TRUE, evaluation |-> <<"1">>, exception |-> <<>>]
          [] wait ->
                [sent |-> FALSE, evaluation |-> <<>>, exception |-> <<>>]
          [] OTHER ->
                [sent |-> TRUE, evaluation |-> <<"[Promise] {}">>,
                 exception |-> <<>>]

\* The clients that on_client_lost keeps.
Remember(client) == clients

Forget(client) == SelectSeq(clients, LAMBDA a_client : a_client # client)

\* on_client_found: the server has a new client, which gets one padawan.
on_client_found(client) ==
    /\ client \notin padawans
    /\ clients' = Append(clients, client)
    /\ padawans' = padawans \cup {client}
    /\ UNCHANGED <<lost, requested, eval_callbacks, on_results, connected_at>>
    /\ UNCHANGED outside_webl

\* on_client_lost: the connection of a client has closed, and the client is
\* forgotten. The evaluations it has not reported stay as they are.
on_client_lost(client) ==
    /\ client \in padawans
    /\ client \notin lost
    /\ lost' = lost \cup {client}
    /\ clients' = Forget(client)
    /\ UNCHANGED <<padawans, requested, eval_callbacks, on_results,
                   connected_at>>
    /\ UNCHANGED outside_webl

\* on_eval of the browser REPL, with eval_module of webl.js: the command is
\* given to the padawan of every client of 'clients', each with the
\* specifiers qualified for that client, and awaits its report.
webl_on_eval(script, import_specifiers, wait) ==
    /\ Len(connected_at) < MaxDispatches
    /\ LET id == Len(connected_at) + 1
           calls == {[client |-> clients[k], id |-> id, script |-> script,
                      imports |-> [i \in 1..Len(import_specifiers) |->
                            qualify(import_specifiers[i], clients[k])],
                      wait |-> wait] : k \in 1..Len(clients)}
       IN  /\ requested' = requested \cup calls
           /\ eval_callbacks' = eval_callbacks \cup calls
           /\ connected_at' = Append(connected_at, padawans \ lost)
    /\ UNCHANGED <<clients, padawans, lost, on_results>>
    /\ UNCHANGED outside_webl

\* The report of an evaluation reaches the server while the connection of
\* its client is open; the Promise of the evaluation resolves with it.
Relayed(e) ==
    /\ e.client \notin lost
    /\ padawan_eval_script_template(e.script, e.imports, e.wait).sent

\* The 'then' of on_eval, with send of make.js: the report of a client has
\* arrived, and the result callback gets its evaluation and exception, and
\* the id of the message.
Evaluation(e) ==
    /\ e \in eval_callbacks
    /\ Relayed(e)
    /\ eval_callbacks' = eval_callbacks \ {e}
    /\ LET report ==
               padawan_eval_script_template(e.script, e.imports, e.wait)
       IN  on_results' = Append(on_results,
               [client |-> e.client, evaluation |-> report.evaluation,
                exception |-> report.exception, id |-> e.id])
    /\ UNCHANGED <<clients, padawans, lost, requested, connected_at>>
    /\ UNCHANGED outside_webl

Reporting == \E e \in eval_callbacks : Evaluation(e)

WeblNext ==
    \/ \E client \in WeblClients : on_client_found(client)
    \/ \E client \in WeblClients : on_client_lost(client)
    \/ \E script \in WeblScripts, import_specifiers \in WeblImports,
          wait \in BOOLEAN : webl_on_eval(script, import_specifiers, wait)
    \/ Reporting

SpecWebl == Init /\ [][WeblNext]_vars

\* The report of a connected client is not delayed for ever.
SpecWeblFair == SpecWebl /\ WF_vars(Reporting)

\* The calls of the result callback made for a client and a command.
CallsFor(client, id) ==
    {k \in DOMAIN on_results :
        on_results[k].client = client /\ on_results[k].id = id}

\* The clients whose padawan was asked to evaluate a command.
RequestsOf(id) == {e.client : e \in {r \in requested : r.id = id}}

\* The command was dispatched while the client was connected.
Dispatched(client, id) ==
    id <= Len(connected_at) /\ client \in connected_at[id]

\* The padawan of the client sends a report for the command.
ReportSent(client, id) ==
    \E e \in requested :
        /\ e.client = client /\ e.id = id
        /\ padawan_eval_script_template(e.script, e.imports, e.wait).sent

\* C28: a command is evaluated in exactly the clients that were found and
\* not lost when it was dispatched, each with the specifiers qualified for it.
C28_DispatchedToConnected ==
    /\ \A id \in DOMAIN connected_at : RequestsOf(id) = connected_at[id]
    /\ \A e \in requested : \A i \in DOMAIN e.imports :
            Head(e.imports[i]) # "/"

\* C28: the result callback is called at most once for a client and a
\* command, only for a client the command was dispatched to, and with the
\* evaluation and exception of the report of that client's padawan.
C28_CallsAreReports ==
    \A k \in DOMAIN on_results :
        /\ CallsFor(on_results[k].client, on_results[k].id) = {k}
        /\ \E e \in requested :
            /\ e.client = on_results[k].client /\ e.id = on_results[k].id
            /\ LET report ==
                   padawan_eval_script_template(e.script, e.imports, e.wait)
               IN  /\ report.sent
                   /\ on_results[k].evaluation = report.evaluation
                   /\ on_results[k].exception = report.exception

\* C28 as stated: a command is evaluated in the clients connected when it is
\* dispatched and in no lost client, and for every such client the result
\* callback is eventually called, exactly once, with that client's report.
C28_ExactlyOncePerClient ==
    /\ [](C28_DispatchedToConnected /\ C28_CallsAreReports)
    /\ \A client \in WeblClients, id \in DispatchIds :
            Dispatched(client, id)
                ~> (Cardinality(CallsFor(client, id)) = 1)

\* C28 as amended: a command is evaluated in the clients connected when it is
\* dispatched and in no lost client; the result callback is called at most
\* once per such client, with that client's report, and it is called once
\* for every such client whose padawan sends a report while the client is
\* connected. No call is made for an evaluation that is awaited for ever.
C28_OncePerReportingClient ==
    /\ [](C28_DispatchedToConnected /\ C28_CallsAreReports)
    /\ \A client \in WeblClients, id \in DispatchIds :
            (Dispatched(client, id) /\ ReportSent(client, id))
                ~> (Cardinality(CallsFor(client, id)) = 1 \/ client \in lost)

\* C28 witness: a client was lost between two commands, the second command
\* went to the clients that remained, and each of them has reported once.
C28_Witness ==
    /\ Len(connected_at) = 2
    /\ connected_at[2] # {}
    /\ connected_at[2] # connected_at[1]
    /\ connected_at[2] \subseteq connected_at[1]
    /\ \A client \in connected_at[2] :
            Cardinality(CallsFor(client, 2)) = 1

\* C29, as claimed: analyze_top's 'wait' is true exactly when the source
\* holds an await or a for-await outside every function body, wherever it
\* is (the iterable of a loop included), and 'values' holds exactly the
\* expression statements outside function bodies.
C29_WaitIffTopLevelAwait ==
    replized # NoScript =>
        LET top_analysis == analyze_top(replized.tree)
        IN  /\ top_analysis.wait <=> TopLevelAwait(replized.tree)
            /\ top_analysis.values
                    = {k \in 1..Len(replized.tree) :
                            replized.tree[k].type = "ExpressionStatement"}

\* A top-level variable declaration, exported or not.
IsVariableDeclaration(node) ==
    \/ node.type = "VariableDeclaration"
    \/ node.type = "ExportNamedDeclaration"
        /\ node.declaration = "VariableDeclaration"

\* C30, as claimed: for every top-level variable declaration, of whatever
\* declarator shape (renamed properties of an object pattern included), the
\* identifiers replize remembers are exactly the names the declaration
\* binds, and each of them is a member of the identifiers object that is
\* copied into the scope.
C30_RemembersBoundNames ==
    replized # NoScript /\ replized.threw = "nothing" =>
        \A k \in 1..Len(replized.tree) :
            IsVariableDeclaration(replized.tree[k]) =>
                LET node == replized.tree[k]
                    remembered == Declared(node, 0)
                IN  /\ {remembered[i] : i \in DOMAIN remembered}
                        = {node.binds[i].name : i \in DOMAIN node.binds}
                    /\ \A i \in DOMAIN node.binds :
                        \E m \in DOMAIN replized.identifiers :
                            replized.identifiers[m].name = node.binds[i].name

\* The function statements of a source.
FunctionStatements(tree) ==
    {k \in 1..Len(tree) : tree[k].type = "FunctionDeclaration"}

\* C31, as claimed: the payload begins, after the async wrapper's prefix if
\* there is one, with the hoist assignments `f = $f;` of all the function
\* statements of the source, each a complete statement, before any text of
\* the source and before any other insertion made at offset 0, also when a
\* class declaration or a value-producing statement begins the source.
C31_HoistsAtStart ==
    replized # NoScript /\ replized.threw = "nothing" =>
        LET payload == replized.payload
            skip == IF payload # <<>> /\ payload[1] = AsyncOpen
                    THEN 1 ELSE 0
            functions == FunctionStatements(replized.tree)
        IN  /\ Len(payload) >= skip + 4 * Cardinality(functions)
            /\ \A j \in 1..Cardinality(functions) :
                \E k \in functions :
                    SubSeq(payload, skip + 4 * j - 3, skip + 4 * j)
                        = <<replized.tree[k].id.keys[1], "=",
                            "$" \o replized.tree[k].id.keys[1], ";">>

\* ==========================================================================
\* repl.js: which resolved specifier each specifier site of a source gets,
\* in the module the source server sends and in the command of an evaluation.
\* ==========================================================================

\* The specifier that the k-th statement of a source names.
SpecifierAt(k) == <<"./", Digits(k), ".js">>

\* locate(specifier, parent).then(versionize).then(specify)
SiteLocated(specifier) == <<"http://127.0.0.1/v0/">> \o Tail(specifier)

\* The statements of a kind, in the order the walk finds them.
NodesOf(tree, kinds) ==
    SelectSeq([k \in 1..Len(tree) |-> k], LAMBDA k : tree[k] \in kinds)

\* analyze_module: the nodes of 'imports', 'dynamics' and 'exports'.
analyze_module(tree) ==
    [imports |-> NodesOf(tree, {"import"}),
     dynamics |-> NodesOf(tree, {"dynamic"}),
     exports |-> NodesOf(tree, {"export from", "export"})]

\* The exports that have a source.
WithSource(tree, exports) ==
    SelectSeq(exports, LAMBDA k : tree[k] = "export from")

\* all_specifiers(module_analysis)
all_specifiers(tree, module_analysis) ==
    LET value(nodes) == [i \in DOMAIN nodes |-> SpecifierAt(nodes[i])]
    IN  value(module_analysis.imports) \o value(module_analysis.dynamics)
            \o value(WithSource(tree, module_analysis.exports))

\* Promise.all over the specifiers: the resolved ones, in the same order.
Locate(specifiers) == [i \in DOMAIN specifiers |-> SiteLocated(specifiers[i])]

\* Where the specifiers of the dynamic sites begin in all_specifiers.
AtStart(module_analysis) == 0

AfterImports(module_analysis) == Len(module_analysis.imports)

\* The specifier that each statement holds after alter_string has applied
\* the alterations: the replacement of the alteration of its node, or the
\* one it had.
Altered(tree, alterations) ==
    [k \in 1..Len(tree) |->
        IF \E a \in DOMAIN alterations : alterations[a].node = k
        THEN LET a == CHOOSE a \in DOMAIN alterations :
                        alterations[a].node = k
             IN  alterations[a].replacement
        ELSE IF tree[k] \in {"import", "dynamic", "export from"}
        THEN SpecifierAt(k)
        ELSE <<>>]

\* module(locator): the alterations made with the resolved specifiers.
site_alterations(tree) ==
    LET module_analysis == analyze_module(tree)
        specifiers == Locate(all_specifiers(tree, module_analysis))
        sources == WithSource(tree, module_analysis.exports)
    IN  [nr \in DOMAIN module_analysis.imports |->
            [node |-> module_analysis.imports[nr],
             replacement |-> specifiers[nr]]]
        \o [nr \in DOMAIN module_analysis.dynamics |->
            [node |-> module_analysis.dynamics[nr],
             replacement |->
                specifiers[AfterImports(module_analysis) + nr]]]
        \o [nr \in DOMAIN sources |->
            [node |-> sources[nr],
             replacement |->
                specifiers[Len(module_analysis.imports)
                           + Len(module_analysis.dynamics) + nr]]]

\* The source server sends a module.
SiteModule(tree) ==
    /\ site_source' = tree
    /\ site_module' = Altered(tree, site_alterations(tree))
    /\ site_command' = NoSiteCommand
    /\ UNCHANGED outside_sites

\* send(message, on_result), with on_eval and replize: the imports of the
\* command, the specifier that replize puts at each dynamic site, and the
\* element of $imports that the bindings of each import statement read.
SiteSend(tree) ==
    /\ site_source' = tree
    /\ site_module' = <<>>
    /\ LET module_analysis == analyze_module(tree)
           nr_dynamic == Len(module_analysis.imports)
           resolved_specifiers ==
               Locate(all_specifiers(tree, module_analysis))
           dynamic_specifiers ==
               SubSeq(resolved_specifiers, nr_dynamic + 1,
                      Len(resolved_specifiers))
           import_specifiers == SubSeq(resolved_specifiers, 1, nr_dynamic)
       IN  site_command' =
               [imports |-> import_specifiers,
                dynamics |->
                    [dynamic_nr \in DOMAIN module_analysis.dynamics |->
                        [node |-> module_analysis.dynamics[dynamic_nr],
                         replacement |-> dynamic_specifiers[dynamic_nr]]],
                reads |->
                    [import_nr \in DOMAIN module_analysis.imports |->
                        [node |-> module_analysis.imports[import_nr],
                         import_nr |-> import_nr]]]
    /\ UNCHANGED outside_sites

SitesNext ==
    \/ \E tree \in SiteSources : SiteModule(tree)
    \/ \E tree \in SiteSources : SiteSend(tree)

SpecSites == Init /\ [][SitesNext]_vars

\* C32: in the module that the source server sends, every import, dynamic
\* and `export from` site holds the resolved specifier of that same site and
\* nothing else is changed; in a command, the element of the imports array
\* that the bindings of an import statement read is the resolved specifier of
\* that statement, and every dynamic site gets its own resolved specifier.
C32_EachSiteItsOwn ==
    /\ site_module # <<>> =>
        \A k \in DOMAIN site_source :
            site_module[k]
                = IF site_source[k] \in {"import", "dynamic", "export from"}
                  THEN SiteLocated(SpecifierAt(k))
                  ELSE <<>>
    /\ \A r \in DOMAIN site_command.reads :
            site_command.imports[site_command.reads[r].import_nr]
                = SiteLocated(SpecifierAt(site_command.reads[r].node))
    /\ \A d \in DOMAIN site_command.dynamics :
            site_command.dynamics[d].replacement
                = SiteLocated(SpecifierAt(site_command.dynamics[d].node))
    /\ site_command # NoSiteCommand =>
        /\ {site_command.reads[r].node : r \in DOMAIN site_command.reads}
                = {k \in DOMAIN site_source : site_source[k] = "import"}
        /\ {site_command.dynamics[d].node :
                    d \in DOMAIN site_command.dynamics}
                = {k \in DOMAIN site_source : site_source[k] = "dynamic"}

\* C32 witness: a module with an import, a dynamic site and a re-export, in
\* an order other than that of all_specifiers, has been rewritten.
C32_Witness ==
    /\ site_module # <<>>
    /\ site_source = <<"export from", "dynamic", "import">>
    /\ site_module[2] = SiteLocated(SpecifierAt(2))

\* C33, as claimed: when the value of the key that is the subpath, or of the
\* one key with a "*" that matches it, is a conditional object or an array
\* that unwraps to a string, internalize returns a file: the unwrapped value
\* of the exact key, or the unwrapped value of the glob key with the middle
\* of the subpath in place of its "*", and not an error.
C33_UnwrapsBeforeSubstitution ==
    (/\ resolving # NotResolving
     /\ resolving.external # Root
     /\ resolving.manifest.exports.type = "object")
        => LET exports == resolving.manifest.exports
               external == resolving.external
               wrapped(value) ==
                    /\ value.type \in {"object", "array"}
                    /\ unwrap_export(value) # NoValue
           IN  /\ (Has(exports, external)
                        /\ wrapped(Member(exports, external)))
                    => internal = unwrap_export(Member(exports, external))
               /\ \A i \in MatchingGlobs(exports, external) :
                    (/\ ~Has(exports, external)
                     /\ MatchingGlobs(exports, external) = {i}
                     /\ wrapped(exports.items[i].items[1])
                     /\ StarsOf(unwrap_export(
                            exports.items[i].items[1]).string) # {})
                        => /\ internal.type = "string"
                           /\ internal
                                = Substituted(exports.items[i].string,
                                              exports.items[i].items[1],
                                              external)

\* ==========================================================================
\* webl.js: on_message, and the tables of callbacks it looks up.
\* ==========================================================================

\* The test that on_message makes before it acts on a message.
RecognizedWithoutSecret(data) == data.object

Recognized(data) == data.object /\ data.secret = secret

\* padawan(spec): the log and exception callbacks of the name are stored.
\* 'log_callbacks' stands for exception_callbacks too: they hold the same
\* names.
padawan(name) ==
    /\ name \notin log_callbacks
    /\ log_callbacks' = log_callbacks \cup {name}
    /\ UNCHANGED <<secret, webl_padawans, ready_callbacks, eval_ids,
                   eval_count, invoked, received, last_message>>
    /\ UNCHANGED outside_message

\* create(): the padawan is made and its ready callback is stored.
create(name) ==
    /\ name \in log_callbacks
    /\ name \notin webl_padawans
    /\ webl_padawans' = webl_padawans \cup {name}
    /\ ready_callbacks' = ready_callbacks \cup {name}
    /\ UNCHANGED <<secret, eval_ids, eval_count, log_callbacks, invoked,
                   received, last_message>>
    /\ UNCHANGED outside_message

\* eval_module: the callback of the evaluation is stored under a new id.
eval_module(name) ==
    /\ name \in webl_padawans
    /\ eval_count < MaxEvalCount
    /\ eval_ids' = eval_ids \cup {eval_count}
    /\ eval_count' = eval_count + 1
    /\ UNCHANGED <<secret, webl_padawans, ready_callbacks, log_callbacks,
                   invoked, received, last_message>>
    /\ UNCHANGED outside_message

\* destroy() of a padawan
destroy(name) ==
    /\ name \in webl_padawans
    /\ webl_padawans' = webl_padawans \ {name}
    /\ ready_callbacks' = ready_callbacks \ {name}
    /\ log_callbacks' = log_callbacks \ {name}
    /\ UNCHANGED <<secret, eval_ids, eval_count, invoked, received,
                   last_message>>
    /\ UNCHANGED outside_message

\* on_message(event): a message that is not recognized is ignored; a
\* callback that 'ready' does not find is skipped, and one that another
\* name does not find is a TypeError, which leaves everything as it was.
on_message(data) ==
    /\ received < MaxMessages
    /\ received' = received + 1
    /\ last_message' = data
    /\ LET call == Append(invoked, [callback |-> data.name,
                                    data |-> data])
       IN  CASE Recognized(data) /\ data.name = "ready"
                    /\ data.padawan \in ready_callbacks ->
                    /\ invoked' = call
                    /\ ready_callbacks' = ready_callbacks \ {data.padawan}
                    /\ UNCHANGED eval_ids
             [] Recognized(data) /\ data.name = "evaluation"
                    /\ data.eval_id \in eval_ids ->
                    /\ invoked' = call
                    /\ eval_ids' = eval_ids \ {data.eval_id}
                    /\ UNCHANGED ready_callbacks
             [] Recognized(data)
                    /\ data.name \in {"log", "exception"}
                    /\ data.padawan \in log_callbacks ->
                    /\ invoked' = call
                    /\ UNCHANGED <<ready_callbacks, eval_ids>>
             [] OTHER ->
                    UNCHANGED <<invoked, ready_callbacks, eval_ids>>
    /\ UNCHANGED <<secret, webl_padawans, eval_count, log_callbacks>>
    /\ UNCHANGED outside_message

MessageNext ==
    \/ \E name \in PadawanNames : padawan(name)
    \/ \E name \in PadawanNames : create(name)
    \/ \E name \in PadawanNames : eval_module(name)
    \/ \E name \in PadawanNames : destroy(name)
    \/ \E data \in MessageData : on_message(data)

SpecMessage == Init /\ [][MessageNext]_vars

\* C34: every callback that was invoked was invoked for a message that
\* carries the secret of the WEBL, and the handling of a message whose
\* secret is not the WEBL's changes nothing: no table, no counter, and no
\* callback is invoked.
C34_OnlyWithTheSecret ==
    /\ [](\A i \in DOMAIN invoked :
            /\ invoked[i].data.object
            /\ invoked[i].data.secret = secret)
    /\ [][(received' # received /\ last_message'.secret # secret)
            => UNCHANGED <<secret, webl_padawans, ready_callbacks, eval_ids,
                           eval_count, log_callbacks, invoked>>]_vars

\* C34 witness: an evaluation is awaited, a message that reports it with
\* another secret has been handled, and its callback is still stored and
\* was not invoked.
C34_Witness ==
    /\ received > 0
    /\ last_message.object
    /\ last_message.secret \notin {secret, NoSecret}
    /\ last_message.name = "evaluation"
    /\ last_message.eval_id \in eval_ids
    /\ invoked = <<>>

\* C35, as claimed: relay_report never runs for an id that has no entry in
\* report_callbacks, so the line handler never throws: also a report that a
\* dying padawan wrote, and that is read from its socket after the exit
\* handler has cleared the table, finds its callback.
C35_EveryReportFindsCallback == master # "crashed"

\* C36, as claimed: whenever eval is called after create has resolved, also
\* between the exit of a padawan and the connection of its replacement, the
\* 'socket' variable is set, the command is written to the channel, and the
\* call neither throws nor returns a rejected Promise.
C36_EvalWritesToSocket ==
    [][\A e \in EvalIds :
        (evals[e].st = "idle" /\ evals'[e].st # "idle")
            => /\ socket # NoProcess
               /\ evals'[e].st = "pending"
               /\ \E c \in wire_commands'[socket] : c.id = e]_vars

----------------------------------------------------------------------------
(***************************************************************************)
(* cmdl.js: the life of the padawan process alone.  The host only creates  *)
(* and destroys the CMDL, as often as it likes; nothing is evaluated.      *)
(***************************************************************************)

LifeNext ==
    \/ Create
    \/ CreateAfterDestroy
    \/ Listening
    \/ \E p \in ProcIds : Register(p)
    \/ \E p \in ProcIds : Spawned(p)
    \/ \E p \in ProcIds : Connect(p)
    \/ \E p \in ProcIds : Exit(p)
    \/ Destroy
    \/ ServerClosed
    \/ DestroyAgain
    \/ CreateAgain

SpecLife == Init /\ [][LifeNext]_vars

\* The processes that run: spawned, and their "exit" event not yet handled.
LivePadawans == {p \in ProcIds : Live(p)}

\* C40: at every moment a CMDL has at most one live padawan process, and the
\* channel socket, if there is one, is the connection of that process; a
\* padawan is spawned only by the listen callback of create or by the exit
\* handler of the previous one, and never while another process is alive.
C40_OneLivePadawan ==
    /\ [](Cardinality(LivePadawans) <= 1)
    /\ [](socket # NoProcess => LivePadawans \subseteq {socket})
    /\ [][SpawnsPadawan =>
            /\ \/ listen_pending /\ ~listen_pending'
               \/ \E p \in ProcIds : ExitStep(p)
            /\ \A q \in ProcIds : ~(Live(q) /\ procs'[q].st # "exited")]_vars

\* The module objects that the imports of command c resolve to.
ModulesOf(c) ==
    [i \in DOMAIN commands[c].imports |-> ModuleObject(commands[c].imports[i])]

\* C39: when several commands are in flight in one padawan, each script
\* reads the modules of its own command through the global $imports: the
\* import names of an evaluated script are bound to the modules that its own
\* command imported, whatever the order in which the imports completed.
C39_OwnImports ==
    \A c \in LineIds :
        evaluated_with[c].evaluated => evaluated_with[c].imports = ModulesOf(c)

\* C39's case: two commands with different imports were in flight together,
\* the later one was evaluated first, and the earlier one was evaluated while
\* the other one waited for the value of its script.
C39_Witness ==
    /\ commands[1].imports = <<"./a.js">>
    /\ commands[2].imports = <<>>
    /\ stage[2] = "waiting"
    /\ evaluated_with[2].evaluated
    /\ evaluated_with[1].evaluated
    /\ evaluated_with[1].imports = <<ModuleObject("./a.js")>>
    /\ imports_bound.modules = <<ModuleObject("./a.js")>>

----------------------------------------------------------------------------
(***************************************************************************)
(* repl.js: the coherence of the three caches.                             *)
(***************************************************************************)

\* C37: in every reachable state of the REPL caches, a hash or analysis
\* entry for a locator exists only while the source entry for it exists,
\* and it was derived from that same read: no interleaving of reads,
\* failures, watch notifications and watch failures leaves a hash or an
\* analysis derived from an older read beside a newer source entry.
C37_CachesCoherent ==
    \A L \in Locs :
        /\ hashing[L] # NoRead => reading[L] = hashing[L]
        /\ analyzing[L] # NoRead => reading[L] = analyzing[L]

\* C37's case: the entries of "c" were dropped while a computation still
\* holds the older read, and the source, hash and analysis entries that
\* replaced them all derive from the newer read.
C37_Witness ==
    /\ reading["c"] # NoRead
    /\ hashing["c"] = reading["c"]
    /\ analyzing["c"] = reading["c"]
    /\ \E id \in ReadIds \ {reading["c"]} : reads["c"][id].st # "free"
    /\ errs["c"] > 0

----------------------------------------------------------------------------
(***************************************************************************)
(* repl.js: hash and versionize over a dependency graph.  Every read,      *)
(* analysis, locate and digest succeeds; what is followed is which calls   *)
(* of hash wait for which.                                                 *)
(***************************************************************************)

\* The last MaxChain calls of a chain.
Kept(chain) == IF Len(chain) > MaxChain THEN Tail(chain) ELSE chain

\* The module a call of hash is about.
Hashed(chain) == chain[Len(chain)]

\* all_specifiers(module_analysis).map(... locate(specifier, locator)
\* .then(hash)): a call of hash for every module that is imported, whether
\* or not a call for that module is already waiting further up the chain.
Hashes(chain) ==
    {Kept(Append(chain, m)) : m \in importing_of[Hashed(chain)]}

\* versionize(locator) is called for a module of the graph that is on disk:
\* it calls hash(locator), which calls hash_source and analyze.
versionize_called(graph, locator) ==
    /\ hash_root = NoRoot
    /\ importing_of' = graph
    /\ hash_root' = locator
    /\ hash_analyzing' = {<<locator>>}
    /\ hash_calls' = (hash_calls + 1) % CallsModulus
    /\ UNCHANGED <<hash_awaiting, hash_resolved, hash_versionized>>
    /\ UNCHANGED outside_graph

\* analyze(locator) resolves for a call of hash: its specifiers are located
\* and hash is called on each; the call waits for those hashes.
hash_analyzed(chain) ==
    /\ chain \in hash_analyzing
    /\ hash_analyzing' = (hash_analyzing \ {chain}) \cup Hashes(chain)
    /\ hash_awaiting' = hash_awaiting \cup {chain}
    /\ hash_calls' = (hash_calls + Cardinality(importing_of[Hashed(chain)]))
                        % CallsModulus
    /\ UNCHANGED <<importing_of, hash_root, hash_resolved, hash_versionized>>
    /\ UNCHANGED outside_graph

\* The source hash and every specifier hash of a call are there: the digest
\* is made and the call resolves.
hash_digested(chain) ==
    /\ chain \in hash_awaiting
    /\ Hashes(chain) \subseteq hash_resolved
    /\ hash_awaiting' = hash_awaiting \ {chain}
    /\ hash_resolved' = hash_resolved \cup {chain}
    /\ UNCHANGED <<importing_of, hash_root, hash_analyzing, hash_versionized,
                   hash_calls>>
    /\ UNCHANGED outside_graph

\* hash(locator) has resolved: the then-callback of versionize gives the
\* versioned locator.
versionize_resolved ==
    /\ ~hash_versionized
    /\ <<hash_root>> \in hash_resolved
    /\ hash_versionized' = TRUE
    /\ UNCHANGED <<importing_of, hash_root, hash_analyzing, hash_awaiting,
                   hash_resolved, hash_calls>>
    /\ UNCHANGED outside_graph

GraphStep ==
    \/ \E chain \in hash_analyzing : hash_analyzed(chain)
    \/ \E chain \in hash_awaiting : hash_digested(chain)
    \/ versionize_resolved

GraphNext ==
    \/ \E graph \in Graphs, locator \in ModuleIds :
            versionize_called(graph, locator)
    \/ GraphStep

SpecGraph == Init /\ [][GraphNext]_vars

\* The capabilities settle and the event loop runs every reaction that is
\* ready.
SpecGraphFair == SpecGraph /\ WF_vars(GraphStep)

\* C38: hash(L), and with it versionize(L), terminates for every finite
\* dependency graph, also when modules import each other in a cycle or a
\* module imports itself.
C38_HashTerminates == (hash_root # NoRoot) ~> hash_versionized

===========================================================================
